---- MODULE Spec2Model ----
(***************************************************************************)
(* Model of the PLANKA MCP server's authenticated API client               *)
(* (src/src/client.ts, src/src/errors.ts) and of the aggregation           *)
(* operations built on it.                                                 *)
(*                                                                         *)
(* Every asynchronous function is cut at its awaits: one action is the     *)
(* code that runs between two network round trips.  The server, the        *)
(* transport and the clock are the environment and are nondeterministic.   *)
(***************************************************************************)
EXTENDS Integers, Sequences, FiniteSets, TLC

(***************************************************************************)
(* Bounds of the model                                                     *)
(***************************************************************************)
NumProcs == 1
MaxCalls == 3
MaxTicks == 2
StartTime == 1
MaxTasks == 2

Procs == 1..NumProcs

(***************************************************************************)
(* Program constants                                                       *)
(***************************************************************************)
\* client.ts:127  Date.now() + 25 * 60 * 1000
TokenTTL == 1500000

Null == 0

(***************************************************************************)
(* JSON values, wire bodies                                                *)
(***************************************************************************)
\* A parsed JSON value as far as the code looks into it:
\*   t        "undefined" | "null" | "obj" | "entity"
\*   message  the "message" member of an object ("none" when absent)
\*   item     the "item" member: "none", "card" (a valid Card), "bad"
\*            (present, wrong shape), "token" (a string)
\*   tok      the token string when item = "token"
\*   included "none" (absent) | "ok" | "bad"
MkData(t, message, item, tok, included) ==
  [t |-> t, message |-> message, item |-> item, tok |-> tok, included |-> included]

UndefinedData == MkData("undefined", "none", "none", 0, "none")
NullData      == MkData("null", "none", "none", 0, "none")
Obj(message, item, included) == MkData("obj", message, item, 0, included)
TokenObj(tok) == MkData("obj", "none", "token", tok, "none")
CardEntity    == MkData("entity", "none", "card", 0, "none")

\* A body on the wire: either text that is not JSON, or the text of a value.
NotJson == [json |-> FALSE, data |-> UndefinedData]
Json(d) == [json |-> TRUE, data |-> d]

\* client.ts:146  safeParseJson: response.json(), null on failure
SafeParseJson(raw) == IF raw.json THEN raw.data ELSE NullData

\* Response.ok
Ok(status) == status >= 200 /\ status <= 299

(***************************************************************************)
(* Errors (src/src/errors.ts)                                              *)
(***************************************************************************)
NoCtx == <<"", "">>

\* An error message, kept as its template and the values interpolated in it.
MkMsg(text, status, statusText, bodyMsg, ctx, url, missing) ==
  [text |-> text, status |-> status, statusText |-> statusText,
   bodyMsg |-> bodyMsg, ctx |-> ctx, url |-> url, missing |-> missing]

NoMsg == MkMsg("", 0, "", "none", NoCtx, "", {})

NoDetails      == [t |-> "undefined", body |-> UndefinedData, cause |-> ""]
BodyDetails(b) == [t |-> "body", body |-> b, cause |-> ""]
CauseDetails(n) == [t |-> "cause", body |-> UndefinedData, cause |-> n]

MkError(name, code, status, message, details) ==
  [name |-> name, code |-> code, status |-> status,
   message |-> message, details |-> details]

NoError == MkError("none", "none", 0, NoMsg, NoDetails)

\* errors.ts:5
PlankaError(message, code, status, details) ==
  MkError("PlankaError", code, status, message, details)

\* errors.ts:17
PlankaAuthError(message) ==
  MkError("PlankaAuthError", "AUTH_FAILED", 401, message, NoDetails)

\* errors.ts:24
PlankaNotFoundError(resource, id) ==
  MkError("PlankaNotFoundError", "NOT_FOUND", 404,
          MkMsg("not found", 0, "", "none", id, resource, {}), NoDetails)

\* errors.ts:31
PlankaValidationError(message, details) ==
  MkError("PlankaValidationError", "VALIDATION_ERROR", 422, message, details)

\* errors.ts:38
PlankaPermissionError(message) ==
  MkError("PlankaPermissionError", "PERMISSION_DENIED", 403, message, NoDetails)

\* errors.ts:45
PlankaConfigError(message) ==
  MkError("PlankaConfigError", "CONFIG_ERROR", 0, message, NoDetails)

\* errors.ts:52
PlankaNetworkError(message, details) ==
  MkError("PlankaNetworkError", "NETWORK_ERROR", 0, message, details)

\* Errors that are not PlankaError instances
SyntaxError == MkError("SyntaxError", "none", 0, NoMsg, NoDetails)
ZodError    == MkError("ZodError", "none", 0, NoMsg, NoDetails)

\* errors.ts:70  the message taken from the body
BodyMessage(body) ==
  IF body.t = "obj" /\ body.message # "none" THEN body.message ELSE "Unknown error"

\* createPlankaError without the 403 case
CreatePlankaError_No403(status, body, context) ==
  LET message == MkMsg("api", 0, "", BodyMessage(body), context, "", {})
  IN  CASE status = 401 -> PlankaAuthError(message)
        [] status = 404 -> PlankaNotFoundError("Resource", context)
        [] status = 422 -> PlankaValidationError(message, BodyDetails(body))
        [] OTHER        -> PlankaError(message, "API_ERROR", status, BodyDetails(body))

\* errors.ts:65  createPlankaError(status, body, context)
CreatePlankaError(status, body, context) ==
  LET message == MkMsg("api", 0, "", BodyMessage(body), context, "", {})
  IN  CASE status = 401 -> PlankaAuthError(message)
        [] status = 403 -> PlankaPermissionError(message)
        [] status = 404 -> PlankaNotFoundError("Resource", context)
        [] status = 422 -> PlankaValidationError(message, BodyDetails(body))
        [] OTHER        -> PlankaError(message, "API_ERROR", status, BodyDetails(body))

(***************************************************************************)
(* Configuration (client.ts:21-68)                                         *)
(***************************************************************************)
\* The values process.env can hold for the three settings ("" is unset).
BaseUrls  == {"", "not a url", "http://planka", "http://planka/"}
Emails    == {"", "agent@example.com"}
Passwords == {"", "secret"}
Envs == [baseUrl : BaseUrls, email : Emails, password : Passwords]

\* new URL(baseUrl) does not throw
IsValidUrl(u) == u \in {"http://planka", "http://planka/"}

\* baseUrl.replace(/\/$/, "")
StripTrailingSlash(u) == IF u = "http://planka/" THEN "http://planka" ELSE u

NoConfig == [baseUrl |-> "", email |-> "", password |-> ""]

\* What a function that may throw yields.
Return(v) == [ok |-> TRUE, value |-> v, error |-> NoError]
Throw(e)  == [ok |-> FALSE, value |-> UndefinedData, error |-> e]
NoResult  == [ok |-> FALSE, value |-> UndefinedData, error |-> NoError]

MissingVars(e) ==
  {v \in {"PLANKA_BASE_URL", "PLANKA_AGENT_EMAIL", "PLANKA_AGENT_PASSWORD"} :
     \/ v = "PLANKA_BASE_URL" /\ e.baseUrl = ""
     \/ v = "PLANKA_AGENT_EMAIL" /\ e.email = ""
     \/ v = "PLANKA_AGENT_PASSWORD" /\ e.password = ""}

\* getConfig() without the URL format check
GetConfig_NoUrlCheck(e) ==
  IF MissingVars(e) # {}
  THEN [ok |-> FALSE, config |-> NoConfig,
        error |-> PlankaConfigError(
                    MkMsg("Missing required environment variables", 0, "", "none",
                          NoCtx, "", MissingVars(e)))]
  ELSE [ok |-> TRUE,
        config |-> [baseUrl |-> StripTrailingSlash(e.baseUrl),
                    email |-> e.email, password |-> e.password],
        error |-> NoError]

\* client.ts:21  getConfig(): [ok, config, error]
GetConfig(e) ==
  IF MissingVars(e) # {}
  THEN [ok |-> FALSE, config |-> NoConfig,
        error |-> PlankaConfigError(
                    MkMsg("Missing required environment variables", 0, "", "none",
                          NoCtx, "", MissingVars(e)))]
  ELSE IF ~IsValidUrl(e.baseUrl)
  THEN [ok |-> FALSE, config |-> NoConfig,
        error |-> PlankaConfigError(
                    MkMsg("Invalid PLANKA_BASE_URL", 0, "", "none", NoCtx, e.baseUrl, {}))]
  ELSE [ok |-> TRUE,
        config |-> [baseUrl |-> StripTrailingSlash(e.baseUrl),
                    email |-> e.email, password |-> e.password],
        error |-> NoError]

\* client.ts:63  PlankaClient.getConfig(): resolved once, memoized on success
GetConfigMemo(cfg, e) ==
  IF cfg # NoConfig THEN [ok |-> TRUE, config |-> cfg, error |-> NoError]
  ELSE GetConfig(e)

(***************************************************************************)
(* Token decisions                                                         *)
(***************************************************************************)
\* getToken() that authenticates on every call
NeedsAuth_Always(tok, t, expiresAt) == TRUE

\* getToken() that looks at the token only, not at its expiry
NeedsAuth_IgnoreExpiry(tok, t, expiresAt) == tok = Null

\* client.ts:137  !this.token || Date.now() >= this.tokenExpiresAt
NeedsAuth(tok, t, expiresAt) == tok = Null \/ t >= expiresAt

\* request() without the isRetry guard
ShouldRetry_NoRetryGuard(status, tok, retry) == status = 401 /\ tok # Null

\* request() that retries on any error status
ShouldRetry_AnyError(status, tok, retry) == ~Ok(status) /\ tok # Null /\ ~retry

\* client.ts:200  response.status === 401 && this.token && !isRetry
ShouldRetry(status, tok, retry) == status = 401 /\ tok # Null /\ ~retry

(***************************************************************************)
(* Transport                                                               *)
(***************************************************************************)
Failures == {"timeout", "refused", "dns"}

\* The name of the error fetch rejects with.  The 30 s signal is
\* AbortSignal.timeout() (client.ts:78): when it fires, fetch rejects with
\* the signal's reason, a DOMException named "TimeoutError"; runtimes whose
\* fetch does not pass the reason on reject with "AbortError".  Connection
\* and DNS failures reject with a TypeError.
RejectionNames(f) ==
  IF f = "timeout" THEN {"TimeoutError", "AbortError"} ELSE {"TypeError"}

\* client.ts:102, 185  error.name === "AbortError"
IsAbortError(n) == n = "AbortError"

\* client.ts:101-112  the catch of authenticate's fetch
AuthNetworkError(n, baseUrl) ==
  IF IsAbortError(n)
  THEN PlankaNetworkError(
         MkMsg("Request timeout connecting to PLANKA at", 0, "", "none", NoCtx, baseUrl, {}),
         CauseDetails(n))
  ELSE PlankaNetworkError(
         MkMsg("Failed to connect to PLANKA at", 0, "", "none", NoCtx, baseUrl, {}),
         CauseDetails(n))

\* client.ts:184-189  the catch of request's fetch
RequestNetworkError(n, ctx) ==
  IF IsAbortError(n)
  THEN PlankaNetworkError(MkMsg("Request timeout", 0, "", "none", ctx, "", {}),
                          CauseDetails(n))
  ELSE PlankaNetworkError(MkMsg("Network error", 0, "", "none", ctx, "", {}),
                          CauseDetails(n))

\* authenticate() throwing PlankaAuthError with its default message
AuthFailedError_NoStatus(status, statusText) ==
  PlankaAuthError(MkMsg("Authentication failed", 0, "", "none", NoCtx, "", {}))

\* client.ts:114-119  authenticate on a non-2xx answer
AuthFailedError(status, statusText) ==
  PlankaAuthError(MkMsg("Authentication failed", status, statusText, "none", NoCtx, "", {}))

\* responses.ts:60  AuthResponse.parse: an object whose item is a string
AuthResponseParse(d) ==
  IF d.t = "obj" /\ d.item = "token" THEN Return(d) ELSE Throw(ZodError)

\* client.ts:121-122  response.json() then AuthResponse.parse
ReadAuthBody(raw) ==
  IF ~raw.json THEN Throw(SyntaxError) ELSE AuthResponseParse(raw.data)

(***************************************************************************)
(* Operations on cards (src/unnamed/part_005, cards.ts)                    *)
(***************************************************************************)
NoInput == [name |-> "absent", type |-> "absent"]
NoBody  == [present |-> FALSE, name |-> "absent", type |-> "absent"]
JsonBody(name, type) == [present |-> TRUE, name |-> name, type |-> type]

CreateCardInputs ==
  {[name |-> "Card", type |-> "absent"], [name |-> "Card", type |-> "story"],
   [name |-> "", type |-> "story"], [name |-> "Card", type |-> "epic"]}
UpdateCardInputs ==
  {[name |-> "New", type |-> "absent"], [name |-> "", type |-> "absent"]}

Calls ==
  {[op |-> "getCard", input |-> NoInput], [op |-> "deleteCard", input |-> NoInput]}
    \cup {[op |-> "createCard", input |-> i] : i \in CreateCardInputs}
    \cup {[op |-> "updateCard", input |-> i] : i \in UpdateCardInputs}

NoCall == [op |-> "none", input |-> NoInput]

\* responses.ts:221  CardTypeSchema
CardTypes == {"project", "story"}

\* A CreateCardSchema whose type is optional and has no default
CreateCardSchemaParse_NoDefault(i) ==
  IF i.name = "absent" \/ i.name = "" THEN [ok |-> FALSE, value |-> NoInput]
  ELSE IF i.type \in CardTypes \cup {"absent"} THEN [ok |-> TRUE, value |-> i]
  ELSE [ok |-> FALSE, value |-> NoInput]

\* A CreateCardSchema that sets the type to "project" whatever was given
CreateCardSchemaParse_ForceDefault(i) ==
  IF i.name = "absent" \/ i.name = "" THEN [ok |-> FALSE, value |-> NoInput]
  ELSE IF i.type \in CardTypes \cup {"absent"}
  THEN [ok |-> TRUE, value |-> [name |-> i.name, type |-> "project"]]
  ELSE [ok |-> FALSE, value |-> NoInput]

\* responses.ts:105  CreateCardSchema.parse: [ok, value]
CreateCardSchemaParse(i) ==
  IF i.name = "absent" \/ i.name = "" THEN [ok |-> FALSE, value |-> NoInput]
  ELSE IF i.type = "absent" THEN [ok |-> TRUE, value |-> [name |-> i.name, type |-> "project"]]
  ELSE IF i.type \in CardTypes THEN [ok |-> TRUE, value |-> i]
  ELSE [ok |-> FALSE, value |-> NoInput]

\* responses.ts:115  UpdateCardSchema.parse: name is optional, not empty
UpdateCardSchemaParse(i) ==
  IF i.name = "" THEN [ok |-> FALSE, value |-> NoInput]
  ELSE [ok |-> TRUE, value |-> [name |-> i.name, type |-> "absent"]]

\* The validation an operation runs before it calls the client.
ValidateInput(c) ==
  CASE c.op = "createCard" -> CreateCardSchemaParse(c.input)
    [] c.op = "updateCard" -> UpdateCardSchemaParse(c.input)
    [] OTHER -> [ok |-> TRUE, value |-> NoInput]

\* The client call an operation makes: method, path, body.
\* part_005:189 createCard, :208 getCard, :236 updateCard, :273 deleteCard
OpRequest(c, validated) ==
  CASE c.op = "createCard" ->
         [method |-> "POST", path |-> "/api/lists/l1/cards",
          body |-> JsonBody(validated.name, validated.type)]
    [] c.op = "updateCard" ->
         [method |-> "PATCH", path |-> "/api/cards/c1",
          body |-> JsonBody(validated.name, validated.type)]
    [] c.op = "deleteCard" ->
         [method |-> "DELETE", path |-> "/api/cards/c1", body |-> NoBody]
    [] OTHER ->
         [method |-> "GET", path |-> "/api/cards/c1", body |-> NoBody]

NoRequest == [method |-> "", path |-> "", body |-> NoBody]

\* responses.ts:42  CardResponse.parse: an object whose item is a Card
CardResponseParse(d) ==
  IF d.t = "obj" /\ d.item = "card" THEN Return(CardEntity) ELSE Throw(ZodError)

\* responses.ts:78  CardIncludedSchema.parse(response.included || {})
CardIncludedParse(d) ==
  IF d.included = "bad" THEN Throw(ZodError) ELSE Return(CardEntity)

\* What the operation does with the value the client returned.
\* part_005:200 createCard, :209-224 getCard, :241 updateCard, :273 deleteCard
OpReturn(op, d) ==
  CASE op = "deleteCard" -> Return(UndefinedData)
    [] op = "getCard" ->
         IF CardResponseParse(d).ok THEN CardIncludedParse(d) ELSE CardResponseParse(d)
    [] OTHER -> CardResponseParse(d)

(***************************************************************************)
(* The server's answers                                                    *)
(***************************************************************************)
ErrorStatuses == {401, 403, 404, 422, 500}

\* Answers of the API endpoints: status and body.
ApiAnswers ==
  {[status |-> 204, raw |-> NotJson]}
    \cup {[status |-> 200, raw |-> r] :
            r \in {NotJson, Json(NullData), Json(Obj("none", "card", "ok")),
                   Json(Obj("none", "card", "bad")), Json(Obj("none", "bad", "none"))}}
    \cup {[status |-> s, raw |-> r] :
            s \in ErrorStatuses,
            r \in {NotJson, Json(Obj("none", "none", "none")),
                   Json(Obj("Server says no", "none", "none"))}}

\* Answers of POST /api/access-tokens; tk is the token the server issues.
AuthAnswers(tk) ==
  {[status |-> 200, statusText |-> "OK", raw |-> r] :
      r \in {Json(TokenObj(tk)), NotJson, Json(Obj("none", "bad", "none"))}}
    \cup {[status |-> 401, statusText |-> "Unauthorized", raw |-> Json(Obj("Invalid credentials", "none", "none"))],
          [status |-> 401, statusText |-> "", raw |-> NotJson],
          [status |-> 500, statusText |-> "Internal Server Error", raw |-> NotJson]}

(***************************************************************************)
(* State                                                                   *)
(***************************************************************************)
VARIABLES
  env,             \* process.env: the three settings
  config,          \* PlankaClient.config (NoConfig is null)
  token,           \* PlankaClient.token (Null or a token)
  tokenExpiresAt,  \* PlankaClient.tokenExpiresAt
  now,             \* Date.now()
  nticks,          \* how often the clock has advanced
  nextTok,         \* the next token the server issues
  ncalls,          \* operations invoked so far
  pc,              \* per invocation: "idle", "auth_wait", "api_wait", "done"
  call,            \* per invocation: the operation and its input
  req,             \* per invocation: method, path, body given to request()
  isRetry,         \* per invocation: request()'s isRetry
  log,             \* per invocation: what it did on the network, in order
  result,          \* per invocation: what the operation returned or threw
  resolutions,     \* the last two getToken() calls: was the token in its
                   \* validity window, how many authenticate() calls it made
  board,           \* getBoard()'s result: cards, taskLists, tasks
  boardPc,         \* "off" | "fetched" | "counted"
  cardsWithCounts, \* getBoardWithTaskCounts()'s cards
  server,          \* the PLANKA server: the card's task lists and labels
  wf,              \* per invocation: a running operation of tasks.ts,
                   \* labels.ts, lists.ts, comments.ts or cards.ts
  nav              \* planka_get_structure: getStructure() and the handler

vars == <<env, config, token, tokenExpiresAt, now, nticks, nextTok, ncalls,
          pc, call, req, isRetry, log, result, resolutions,
          board, boardPc, cardsWithCounts, server, wf, nav>>

clientVars == <<env, config, token, tokenExpiresAt, now, nticks, nextTok, ncalls,
                pc, call, req, isRetry, log, result, resolutions>>
boardVars == <<board, boardPc, cardsWithCounts>>
opsVars == <<server, wf>>

\* One entry of an invocation's log.
\*   e      "auth_send" | "auth_ok" | "auth_fail" | "api_send" | "api_resp"
\*          | "net_fail" | "clear"
\*   method, path, body   the HTTP call the entry is about
\*   tok    auth_send: this.token as getToken() found it; auth_ok: the token
\*          obtained; api_send: the bearer token sent; api_resp: this.token
\*          when the answer arrived
\*   status the answer's status
\*   info   auth_send: "absent" or "expired", why getToken() authenticates;
\*          auth_fail: the answer's statusText; api_resp: "json" or
\*          "notjson"; net_fail: the transport failure
\*   data   api_resp: the body as safeParseJson returned it
MkEvent(e, r, tok, status, info, data) ==
  [e |-> e, method |-> r.method, path |-> r.path, body |-> r.body,
   tok |-> tok, status |-> status, info |-> info, data |-> data]

AuthRequest == [method |-> "POST", path |-> "/api/access-tokens", body |-> NoBody]

\* The parts of the state a specification does not use.
NoServer == [cardLabels |-> {}, taskLists |-> <<>>, color |-> "berry-red"]
NoWorkflow ==
  [op |-> "none", input |-> NoInput, pc |-> "idle", v |-> NoInput,
   taskList |-> "", i |-> 0, position |-> 0, cardLabel |-> "",
   log |-> <<>>, swallowed |-> <<>>, result |-> NoResult, before |-> NoServer]
NoNav == [pc |-> "off", answer |-> <<>>, i |-> 0, structure |-> <<>>, formatted |-> <<>>]

Init ==
  /\ env \in Envs
  /\ config = NoConfig
  /\ token = Null
  /\ tokenExpiresAt = 0
  /\ now = StartTime
  /\ nticks = 0
  /\ nextTok = 1
  /\ ncalls = 0
  /\ pc = [p \in Procs |-> "idle"]
  /\ call = [p \in Procs |-> NoCall]
  /\ req = [p \in Procs |-> NoRequest]
  /\ isRetry = [p \in Procs |-> FALSE]
  /\ log = [p \in Procs |-> <<>>]
  /\ result = [p \in Procs |-> NoResult]
  /\ resolutions = <<>>
  /\ board = [cards |-> <<>>, taskLists |-> <<>>, tasks |-> <<>>]
  /\ boardPc = "off"
  /\ cardsWithCounts = <<>>
  /\ server = NoServer
  /\ wf = [p \in Procs |-> NoWorkflow]
  /\ nav = NoNav

(***************************************************************************)
(* Actions                                                                 *)
(***************************************************************************)
\* The operation returns or throws: the invocation's promise settles.
Settle(p, r, lg) ==
  /\ pc' = [pc EXCEPT ![p] = "done"]
  /\ result' = [result EXCEPT ![p] = r]
  /\ log' = [log EXCEPT ![p] = lg]

\* client.ts:166-183  request() sends the API call with the token it resolved
SendApi(p, rq, tok, lg) ==
  /\ pc' = [pc EXCEPT ![p] = "api_wait"]
  /\ log' = [log EXCEPT ![p] = Append(lg, MkEvent("api_send", rq, tok, 0, "", UndefinedData))]
  /\ UNCHANGED result

\* The record of one getToken() call, keeping the last two.
Resolved(hadToken, inWindow, auth) ==
  LET r == [hadToken |-> hadToken, inWindow |-> inWindow, auth |-> auth]
  IN  IF Len(resolutions) = 0 THEN <<r>> ELSE <<resolutions[Len(resolutions)], r>>

\* client.ts:158-183  request(method, path, body, isRetry) up to its first
\* await that leaves the process: getConfig(), getToken(), and then either
\* authenticate()'s fetch or the API fetch.  tok0 and exp0 are this.token
\* and this.tokenExpiresAt as request() finds them.
BeginRequest(p, rq, retry, tok0, exp0, lg) ==
  LET c == GetConfigMemo(config, env) IN
  /\ isRetry' = [isRetry EXCEPT ![p] = retry]
  /\ token' = tok0
  /\ tokenExpiresAt' = exp0
  /\ IF ~c.ok
     THEN /\ config' = config
          /\ UNCHANGED resolutions
          /\ Settle(p, Throw(c.error), lg)
     ELSE /\ config' = c.config
          /\ IF NeedsAuth(tok0, now, exp0)
             THEN /\ pc' = [pc EXCEPT ![p] = "auth_wait"]
                  /\ log' = [log EXCEPT ![p] =
                               Append(lg, MkEvent("auth_send", AuthRequest, tok0, 0,
                                                  IF tok0 = Null THEN "absent" ELSE "expired",
                                                  UndefinedData))]
                  /\ resolutions' = Resolved(tok0 # Null, now < exp0, 1)
                  /\ UNCHANGED result
             ELSE /\ resolutions' = Resolved(tok0 # Null, now < exp0, 0)
                  /\ SendApi(p, rq, tok0, lg)

\* The operation c is invoked: it validates its input, then calls the client.
InvokeCall(p, c) ==
  /\ pc[p] = "idle"
  /\ ncalls < MaxCalls
  /\ ncalls' = ncalls + 1
  /\ LET v == ValidateInput(c) IN
     /\ call' = [call EXCEPT ![p] = c]
     /\ IF ~v.ok
        THEN /\ req' = req
             /\ Settle(p, Throw(ZodError), <<>>)
             /\ UNCHANGED <<config, token, tokenExpiresAt, isRetry, resolutions>>
        ELSE /\ req' = [req EXCEPT ![p] = OpRequest(c, v.value)]
             /\ BeginRequest(p, OpRequest(c, v.value), FALSE, token, tokenExpiresAt, <<>>)
  /\ UNCHANGED <<env, now, nticks, nextTok>>
  /\ UNCHANGED <<boardVars, opsVars, nav>>

\* An operation is invoked.
Invoke(p) == \E c \in Calls : InvokeCall(p, c)

\* A token that expires at once
TokenExpiry_Now(t) == t

\* client.ts:127  Date.now() + 25 * 60 * 1000
TokenExpiry(t) == t + TokenTTL

\* client.ts:114-131  the token endpoint answered with a; on success
\* request() goes on to send the API call (client.ts:166-183)
AuthenticateAnswered(p, a) ==
  /\ pc[p] = "auth_wait"
  /\ IF ~Ok(a.status)
     THEN /\ Settle(p, Throw(AuthFailedError(a.status, a.statusText)),
                    Append(log[p], MkEvent("auth_fail", AuthRequest, 0, a.status, a.statusText,
                                           UndefinedData)))
          /\ UNCHANGED <<token, tokenExpiresAt, nextTok>>
     ELSE LET r == ReadAuthBody(a.raw) IN
          IF ~r.ok
          THEN /\ Settle(p, Throw(r.error),
                         Append(log[p], MkEvent("auth_fail", AuthRequest, 0, a.status, a.statusText,
                                                UndefinedData)))
               /\ UNCHANGED <<token, tokenExpiresAt, nextTok>>
          ELSE /\ tokenExpiresAt' = TokenExpiry(now)
               /\ token' = r.value.tok
               /\ nextTok' = nextTok + 1
               /\ SendApi(p, req[p], r.value.tok,
                          Append(log[p], MkEvent("auth_ok", AuthRequest, r.value.tok, a.status, "",
                                               UndefinedData)))
  /\ UNCHANGED <<env, config, now, nticks, ncalls, call, req, isRetry, resolutions>>
  /\ UNCHANGED <<boardVars, opsVars, nav>>

\* The token endpoint answered.
AuthenticateResponse(p) == \E a \in AuthAnswers(nextTok) : AuthenticateAnswered(p, a)

\* client.ts:101-112  authenticate()'s fetch rejected with failure f, as an
\* error named n
AuthenticateRejected(p, f, n) ==
  /\ pc[p] = "auth_wait"
  /\ Settle(p, Throw(AuthNetworkError(n, config.baseUrl)),
            Append(log[p], MkEvent("net_fail", AuthRequest, 0, 0, f, UndefinedData)))
  /\ UNCHANGED <<env, config, token, tokenExpiresAt, now, nticks, nextTok, ncalls,
                 call, req, isRetry, resolutions>>
  /\ UNCHANGED <<boardVars, opsVars, nav>>

\* authenticate()'s fetch rejected.
AuthenticateFailure(p) ==
  \E f \in Failures : \E n \in RejectionNames(f) : AuthenticateRejected(p, f, n)

\* client.ts:191-209  the API endpoint answered with a
RequestAnswered(p, a) ==
  /\ pc[p] = "api_wait"
  /\ LET data == SafeParseJson(a.raw)
         lg == Append(log[p], MkEvent("api_resp", req[p], token, a.status,
                                      IF a.raw.json THEN "json" ELSE "notjson", data))
     IN  IF a.status = 204
         THEN /\ Settle(p, OpReturn(call[p].op, UndefinedData), lg)
              /\ UNCHANGED <<config, token, tokenExpiresAt, isRetry, resolutions>>
         ELSE IF ~Ok(a.status)
         THEN IF ShouldRetry(a.status, token, isRetry[p])
              THEN BeginRequest(p, req[p], TRUE, Null, 0,
                                Append(lg, MkEvent("clear", req[p], 0, 0, "", UndefinedData)))
              ELSE /\ Settle(p, Throw(CreatePlankaError(a.status, data,
                                                        <<req[p].method, req[p].path>>)), lg)
                   /\ UNCHANGED <<config, token, tokenExpiresAt, isRetry, resolutions>>
         ELSE /\ Settle(p, OpReturn(call[p].op, data), lg)
              /\ UNCHANGED <<config, token, tokenExpiresAt, isRetry, resolutions>>
  /\ UNCHANGED <<env, now, nticks, nextTok, ncalls, call, req>>
  /\ UNCHANGED <<boardVars, opsVars, nav>>

\* The API endpoint answered.
RequestResponse(p) == \E a \in ApiAnswers : RequestAnswered(p, a)

\* client.ts:184-189  request()'s fetch rejected with failure f, as an error
\* named n
RequestRejected(p, f, n) ==
  /\ pc[p] = "api_wait"
  /\ Settle(p, Throw(RequestNetworkError(n, <<req[p].method, req[p].path>>)),
            Append(log[p], MkEvent("net_fail", req[p], 0, 0, f, UndefinedData)))
  /\ UNCHANGED <<env, config, token, tokenExpiresAt, now, nticks, nextTok, ncalls,
                 call, req, isRetry, resolutions>>
  /\ UNCHANGED <<boardVars, opsVars, nav>>

\* request()'s fetch rejected.
RequestFailure(p) ==
  \E f \in Failures : \E n \in RejectionNames(f) : RequestRejected(p, f, n)

\* The caller takes the result; the invocation is over.
Resume(p) ==
  /\ pc[p] = "done"
  /\ pc' = [pc EXCEPT ![p] = "idle"]
  /\ call' = [call EXCEPT ![p] = NoCall]
  /\ req' = [req EXCEPT ![p] = NoRequest]
  /\ isRetry' = [isRetry EXCEPT ![p] = FALSE]
  /\ log' = [log EXCEPT ![p] = <<>>]
  /\ result' = [result EXCEPT ![p] = NoResult]
  /\ UNCHANGED <<env, config, token, tokenExpiresAt, now, nticks, nextTok, ncalls,
                 resolutions>>
  /\ UNCHANGED <<boardVars, opsVars, nav>>

\* Time passes.
TickSteps == {1, TokenTTL - 1}

Tick ==
  /\ nticks < MaxTicks
  /\ nticks' = nticks + 1
  /\ \E d \in TickSteps : now' = now + d
  /\ UNCHANGED <<env, config, token, tokenExpiresAt, nextTok, ncalls,
                 pc, call, req, isRetry, log, result, resolutions>>
  /\ UNCHANGED <<boardVars, opsVars, nav>>

\* One invocation at a time: an operation is invoked when none is running.
SeqInvoke(p) ==
  /\ \A q \in Procs : pc[q] = "idle"
  /\ Invoke(p)

Next ==
  \/ \E p \in Procs : SeqInvoke(p)
  \/ \E p \in Procs : AuthenticateResponse(p)
  \/ \E p \in Procs : AuthenticateFailure(p)
  \/ \E p \in Procs : RequestResponse(p)
  \/ \E p \in Procs : RequestFailure(p)
  \/ \E p \in Procs : Resume(p)
  \/ Tick

Spec == Init /\ [][Next]_vars

(***************************************************************************)
(* Reading an invocation's log                                             *)
(***************************************************************************)
IsApiSend(ev)  == ev.e = "api_send"
IsApiResp(ev)  == ev.e = "api_resp"
IsAuthSend(ev) == ev.e = "auth_send"
IsAuthOk(ev)   == ev.e = "auth_ok"

ApiSends(p)  == SelectSeq(log[p], IsApiSend)
ApiResps(p)  == SelectSeq(log[p], IsApiResp)
AuthSends(p) == SelectSeq(log[p], IsAuthSend)
AuthOks(p)   == SelectSeq(log[p], IsAuthOk)

LastEvent(p) == log[p][Len(log[p])]

\* The first answer of the invocation's request was a 401 and a token was
\* cached when it arrived.
Got401WithToken(p) ==
  /\ Len(ApiResps(p)) >= 1
  /\ ApiResps(p)[1].status = 401
  /\ ApiResps(p)[1].tok # Null

\* Two log entries are about the same method, path and body.
SameCall(a, b) == a.method = b.method /\ a.path = b.path /\ a.body = b.body

(***************************************************************************)
(* C1: a request whose first answer is a 401 while a token is cached       *)
(* clears the token and is re-issued exactly once with a fresh token,      *)
(* never a third time; a 401 on the retry fails with an Authentication     *)
(* error.                                                                  *)
(***************************************************************************)
\* C1 as stated: every such request, once over, was sent exactly twice, the
\* second time with the same method, path and body and another token.
C1_ReissuedExactlyOnce ==
  \A p \in Procs :
    (pc[p] = "done" /\ Got401WithToken(p)) =>
      /\ Len(ApiSends(p)) = 2
      /\ SameCall(ApiSends(p)[1], ApiSends(p)[2])
      /\ ApiSends(p)[2].tok # ApiSends(p)[1].tok

\* C1 as amended: the token is cleared and a re-authentication is started;
\* the request is re-issued exactly once, with the same method, path and
\* body and the fresh token, if that re-authentication succeeds, and not at
\* all if it fails (the call then fails with the re-authentication's
\* error); there is never a third attempt, and a 401 on the retry ends the
\* call with an Authentication error.
C1_RetryOnce ==
  \A p \in Procs :
    /\ Len(ApiSends(p)) <= 2
    /\ Got401WithToken(p) =>
         LET i == CHOOSE k \in 1..Len(log[p]) : log[p][k].e = "api_resp" IN
         /\ Len(log[p]) >= i + 2
         /\ log[p][i + 1].e = "clear"
         /\ log[p][i + 2].e = "auth_send"
         /\ log[p][i + 2].tok = Null
         /\ pc[p] = "auth_wait" => (token = Null /\ tokenExpiresAt = 0)
         /\ Len(log[p]) >= i + 3 =>
              \/ /\ log[p][i + 3].e = "auth_ok"
                 /\ Len(ApiSends(p)) = 2
                 /\ SameCall(ApiSends(p)[1], ApiSends(p)[2])
                 /\ ApiSends(p)[2].tok = log[p][i + 3].tok
                 /\ ApiSends(p)[2].tok # ApiSends(p)[1].tok
                 /\ ApiSends(p)[2].tok # Null
              \/ /\ log[p][i + 3].e \in {"auth_fail", "net_fail"}
                 /\ Len(log[p]) = i + 3
                 /\ Len(ApiSends(p)) = 1
                 /\ pc[p] = "done"
                 /\ ~result[p].ok
                 /\ result[p].error.name \in
                      {"PlankaAuthError", "PlankaNetworkError", "SyntaxError", "ZodError"}
         /\ (Len(ApiResps(p)) = 2 /\ ApiResps(p)[2].status = 401) =>
              /\ pc[p] = "done"
              /\ LastEvent(p).e = "api_resp"
              /\ ~result[p].ok
              /\ result[p].error.name = "PlankaAuthError"

\* A request answered 401 twice: sent twice, failed with PlankaAuthError.
C1_Witness ==
  \E p \in Procs :
    /\ pc[p] = "done"
    /\ Got401WithToken(p)
    /\ Len(ApiSends(p)) = 2
    /\ Len(ApiResps(p)) = 2
    /\ ApiResps(p)[2].status = 401
    /\ result[p].error.name = "PlankaAuthError"

(***************************************************************************)
(* C2: of two successive getToken() calls made while the token is in its   *)
(* validity window, the second makes no authentication call and returns    *)
(* the cached token; the two make at most one authentication call.         *)
(***************************************************************************)
C2_CachedTokenNoAuth ==
  /\ \A k \in 1..Len(resolutions) :
       resolutions[k].inWindow => resolutions[k].auth = 0
  /\ (Len(resolutions) = 2 /\ resolutions[2].inWindow) =>
       resolutions[1].auth + resolutions[2].auth <= 1
  /\ \A p \in Procs :
       (pc[p] = "api_wait" /\ resolutions[Len(resolutions)].inWindow) =>
         /\ LastEvent(p).e = "api_send"
         /\ LastEvent(p).tok = token
         /\ token # Null
         /\ AuthSends(p) = <<>>

\* Two getToken() calls in a row inside the window, the first of which
\* found the token an earlier call had obtained.
C2_Witness ==
  /\ Len(resolutions) = 2
  /\ resolutions[1].inWindow
  /\ resolutions[2].inWindow
  /\ \E p \in Procs : pc[p] = "api_wait" /\ nticks > 0

(***************************************************************************)
(* C3: a call that finds the cached token past its expiry authenticates    *)
(* exactly once before it sends the API request, and sends the request     *)
(* with the new token.                                                     *)
(***************************************************************************)
\* The invocation began by finding a token that had expired.
FoundExpired(p) ==
  /\ Len(log[p]) >= 1
  /\ log[p][1].e = "auth_send"
  /\ log[p][1].info = "expired"

C3_ReauthBeforeRequest ==
  /\ \A k \in 1..Len(resolutions) :
       (resolutions[k].hadToken /\ ~resolutions[k].inWindow) => resolutions[k].auth = 1
  /\ \A p \in Procs :
       FoundExpired(p) =>
         /\ log[p][1].tok # Null
         /\ \A i \in 1..Len(log[p]) :
              (log[p][i].e = "api_send" /\ \A j \in 1..(i - 1) : log[p][j].e # "api_send") =>
                /\ i = 3
                /\ log[p][2].e = "auth_ok"
                /\ log[p][i].tok = log[p][2].tok
                /\ log[p][i].tok # log[p][1].tok
         /\ pc[p] = "api_wait" /\ Len(log[p]) = 3 => token = log[p][3].tok

\* An expired token, one re-authentication, then the API request.
C3_Witness ==
  \E p \in Procs :
    /\ FoundExpired(p)
    /\ Len(log[p]) = 3
    /\ log[p][3].e = "api_send"
    /\ now >= StartTime + TokenTTL

(***************************************************************************)
(* C4: an error status other than 401 ends the call at once: no retry, no  *)
(* clearing of the token, no re-authentication.                            *)
(***************************************************************************)
C4_NoRetryOnOtherErrors ==
  \A p \in Procs : \A i \in 1..Len(log[p]) :
    (log[p][i].e = "api_resp" /\ ~Ok(log[p][i].status) /\ log[p][i].status # 401) =>
      /\ i = Len(log[p])
      /\ pc[p] = "done"
      /\ ~result[p].ok
      /\ result[p].error.status = log[p][i].status
      /\ token = log[p][i].tok
      /\ token # Null
      /\ Len(ApiResps(p)) = 1 => (Len(ApiSends(p)) = 1 /\ Len(AuthSends(p)) <= 1)

\* A 500 on the first attempt: one attempt, the error surfaced.
C4_Witness ==
  \E p \in Procs :
    /\ pc[p] = "done"
    /\ Len(ApiResps(p)) = 1
    /\ ApiResps(p)[1].status = 500
    /\ Len(ApiSends(p)) = 1
    /\ result[p].error.name = "PlankaError"

(***************************************************************************)
(* C5: whatever the server answers, an operation returns a validated typed *)
(* value or fails with one of the typed error kinds.                       *)
(***************************************************************************)
\* The error classes of errors.ts
TypedErrorNames ==
  {"PlankaConfigError", "PlankaAuthError", "PlankaPermissionError",
   "PlankaNotFoundError", "PlankaValidationError", "PlankaNetworkError", "PlankaError"}

\* The server (token endpoint or API) answered the invocation's last call.
ServerAnswered(p) ==
  /\ Len(log[p]) >= 1
  /\ LastEvent(p).e \in {"api_resp", "auth_fail"}

\* C5 as stated, for the invocations the server answered: the operation
\* returned a validated entity (nothing, for the void deleteCard) or threw a
\* PlankaError.
C5_TypedOutcome ==
  \A p \in Procs :
    (pc[p] = "done" /\ ServerAnswered(p)) =>
      IF result[p].ok
      THEN result[p].value.t = "entity"
             \/ (call[p].op = "deleteCard" /\ result[p].value.t = "undefined")
      ELSE result[p].error.name \in TypedErrorNames

(***************************************************************************)
(* C6: the error made from a non-2xx API answer is chosen by the status    *)
(* alone and carries the status, the parsed body and "METHOD path".        *)
(***************************************************************************)
\* The error class the claim gives each status.
ErrorNameOfStatus(status) ==
  CASE status = 401 -> "PlankaAuthError"
    [] status = 403 -> "PlankaPermissionError"
    [] status = 404 -> "PlankaNotFoundError"
    [] status = 422 -> "PlankaValidationError"
    [] OTHER        -> "PlankaError"

\* The invocation ended on a non-2xx API answer.
EndedOnErrorStatus(p) ==
  /\ pc[p] = "done"
  /\ Len(log[p]) >= 1
  /\ LastEvent(p).e = "api_resp"
  /\ ~Ok(LastEvent(p).status)

\* The error names the call it was made for.
CarriesContext(err, ev) ==
  err.message.ctx = <<ev.method, ev.path>> /\ ev.method # "" /\ ev.path # ""

\* C6 as stated: every such error carries the parsed body.
C6_ErrorCarriesBody ==
  \A p \in Procs :
    EndedOnErrorStatus(p) =>
      /\ result[p].error.name = ErrorNameOfStatus(LastEvent(p).status)
      /\ result[p].error.status = LastEvent(p).status
      /\ result[p].error.details = BodyDetails(LastEvent(p).data)
      /\ CarriesContext(result[p].error, LastEvent(p))

\* C6 as amended: class by status, the numeric status and the context in
\* every error; the parsed body (null when the body is not JSON) only in
\* the Validation (422) and generic errors; the Authentication and
\* Permission errors carry only the body's message text, the NotFound error
\* nothing of the body.
C6_ErrorByStatus ==
  \A p \in Procs :
    EndedOnErrorStatus(p) =>
      LET ev == LastEvent(p)
          err == result[p].error
      IN  /\ ~result[p].ok
          /\ err.name = ErrorNameOfStatus(ev.status)
          /\ err.status = ev.status
          /\ CarriesContext(err, ev)
          /\ ev.info = "notjson" => ev.data = NullData
          /\ IF ev.status \in {401, 403, 404}
             THEN err.details = NoDetails
             ELSE err.details = BodyDetails(ev.data)
          /\ IF ev.status = 404
             THEN err.message.bodyMsg = "none"
             ELSE err.message.bodyMsg =
                    (IF ev.data.message # "none" THEN ev.data.message ELSE "Unknown error")

\* A 403 or a 422 whose body is not JSON, made into its error.
C6_Witness ==
  \E p \in Procs :
    /\ EndedOnErrorStatus(p)
    /\ LastEvent(p).status \in {403, 422}
    /\ LastEvent(p).info = "notjson"
    /\ result[p].error.name \in {"PlankaPermissionError", "PlankaValidationError"}
    /\ result[p].error.status = LastEvent(p).status

(***************************************************************************)
(* C7: with a setting missing or the base URL malformed, every client call *)
(* fails with a Configuration error before any network call.               *)
(***************************************************************************)
BadEnv ==
  \/ env.baseUrl \in {"", "not a url"}
  \/ env.email = ""
  \/ env.password = ""

C7_ConfigErrorBeforeNetwork ==
  BadEnv =>
    /\ config = NoConfig
    /\ token = Null
    /\ \A p \in Procs :
         /\ log[p] = <<>>
         /\ pc[p] \in {"idle", "done"}
         /\ (pc[p] = "done" /\ req[p] # NoRequest) =>
              /\ ~result[p].ok
              /\ result[p].error.name = "PlankaConfigError"

\* A client call made with a malformed base URL and both credentials set.
C7_Witness ==
  \E p \in Procs :
    /\ env.baseUrl = "not a url"
    /\ env.email # ""
    /\ env.password # ""
    /\ pc[p] = "done"
    /\ req[p] # NoRequest
    /\ result[p].error.name = "PlankaConfigError"

(***************************************************************************)
(* C8: a non-2xx answer of the token endpoint makes authenticate fail with *)
(* an Authentication error carrying that answer's status and status text;  *)
(* no API request follows.                                                 *)
(***************************************************************************)
C8_AuthFailureStatus ==
  \A p \in Procs : \A i \in 1..Len(log[p]) :
    (log[p][i].e = "auth_fail" /\ ~Ok(log[p][i].status)) =>
      /\ i = Len(log[p])
      /\ pc[p] = "done"
      /\ ~result[p].ok
      /\ result[p].error.name = "PlankaAuthError"
      /\ result[p].error.code = "AUTH_FAILED"
      /\ result[p].error.message.text = "Authentication failed"
      /\ result[p].error.message.status = log[p][i].status
      /\ result[p].error.message.statusText = log[p][i].info
      /\ Len(ApiSends(p)) = Len(ApiResps(p))

\* The token endpoint answered 500 to a call that had sent nothing yet.
C8_Witness ==
  \E p \in Procs :
    /\ pc[p] = "done"
    /\ Len(log[p]) = 2
    /\ LastEvent(p).e = "auth_fail"
    /\ LastEvent(p).status = 500
    /\ ApiSends(p) = <<>>
    /\ result[p].error.message.status = 500

(***************************************************************************)
(* C9: every transport failure is raised as the Network error, and a       *)
(* timeout is told apart from the others by its timeout annotation.        *)
(***************************************************************************)
TimeoutTexts == {"Request timeout", "Request timeout connecting to PLANKA at"}

\* C9 as stated.
C9_TimeoutAnnotated ==
  \A p \in Procs :
    (pc[p] = "done" /\ Len(log[p]) >= 1 /\ LastEvent(p).e = "net_fail") =>
      /\ ~result[p].ok
      /\ result[p].error.name = "PlankaNetworkError"
      /\ (LastEvent(p).info = "timeout") <=> (result[p].error.message.text \in TimeoutTexts)

(***************************************************************************)
(* Board aggregation (src/unnamed/part_004, boards.ts)                     *)
(***************************************************************************)
CardIds     == {"c1", "c2"}
TaskListIds == {"tl1", "tl2"}
Positions   == {1, 2}

\* array.sort((a, b) => a.position - b.position): stable, ascending
RECURSIVE SortByPosition(_)
SortByPosition(s) ==
  IF s = <<>> THEN <<>>
  ELSE LET sorted == SortByPosition(SubSeq(s, 1, Len(s) - 1))
           x == s[Len(s)]
           k == Cardinality({i \in 1..Len(sorted) : sorted[i].position <= x.position})
       IN  SubSeq(sorted, 1, k) \o <<x>> \o SubSeq(sorted, k + 1, Len(sorted))

\* Map.set(key, value)
MapSet(m, key, value) ==
  [x \in DOMAIN m \cup {key} |-> IF x = key THEN value ELSE m[x]]

\* new Map()
EmptyMap == [x \in {} |-> 0]

\* part_004:75-78  the taskList -> cardId map
RECURSIVE TaskListToCard(_)
TaskListToCard(taskLists) ==
  IF taskLists = <<>> THEN EmptyMap
  ELSE LET tl == taskLists[Len(taskLists)]
       IN  MapSet(TaskListToCard(SubSeq(taskLists, 1, Len(taskLists) - 1)), tl.id, tl.cardId)

\* A lookup that takes the task's taskListId for the card's id
LookupCard_Direct(taskListToCard, taskListId) == taskListId

\* part_004:88  taskListToCard.get(task.taskListId); "" stands for undefined
LookupCard(taskListToCard, taskListId) ==
  IF taskListId \in DOMAIN taskListToCard THEN taskListToCard[taskListId] ELSE ""

\* part_004:86-100  the fold of the tasks into per-card counters
RECURSIVE TaskCountsByCard(_, _)
TaskCountsByCard(tasks, taskListToCard) ==
  IF tasks = <<>> THEN EmptyMap
  ELSE LET m == TaskCountsByCard(SubSeq(tasks, 1, Len(tasks) - 1), taskListToCard)
           task == tasks[Len(tasks)]
           cardId == LookupCard(taskListToCard, task.taskListId)
           counts == IF cardId \in DOMAIN m THEN m[cardId]
                     ELSE [total |-> 0, completed |-> 0]
       IN  IF cardId = "" THEN m
           ELSE MapSet(m, cardId,
                       [total |-> counts.total + 1,
                        completed |-> IF task.isCompleted THEN counts.completed + 1
                                      ELSE counts.completed])

\* part_004:103-110  the cards, each with its counts added
EnrichCards(cards, taskCountsByCard) ==
  [i \in 1..Len(cards) |->
     LET counts == IF cards[i].id \in DOMAIN taskCountsByCard
                   THEN taskCountsByCard[cards[i].id]
                   ELSE [total |-> 0, completed |-> 0]
     IN  [id |-> cards[i].id, listId |-> cards[i].listId,
          taskCount |-> counts.total, completedTaskCount |-> counts.completed]]

\* The ids of a sequence of entities are distinct.
DistinctIds(s) == \A i, j \in 1..Len(s) : s[i].id = s[j].id => i = j

SeqsUpTo(S, n) == UNION {[1..k -> S] : k \in 0..n}

\* What a board's "included" can hold: the board's two cards, task lists of
\* these cards or of a card the board does not list, tasks of these task
\* lists or of one the board does not list.
BoardCards == <<[id |-> "c1", listId |-> "l1"], [id |-> "c2", listId |-> "l1"]>>
TaskListsOfBoard ==
  {s \in SeqsUpTo([id : TaskListIds, cardId : CardIds \cup {"c3"}, position : Positions],
                  Cardinality(TaskListIds)) : DistinctIds(s)}
TasksOfBoard ==
  SeqsUpTo([taskListId : TaskListIds \cup {"tl3"}, isCompleted : BOOLEAN], MaxTasks)

\* The client idle, and a board as getBoard() (part_004:40-58) returns it
\* from a valid answer: taskLists sorted by position.
BoardInit ==
  /\ env = [baseUrl |-> "http://planka", email |-> "agent@example.com", password |-> "secret"]
  /\ config = NoConfig
  /\ token = Null
  /\ tokenExpiresAt = 0
  /\ now = StartTime
  /\ nticks = 0
  /\ nextTok = 1
  /\ ncalls = 0
  /\ pc = [p \in Procs |-> "idle"]
  /\ call = [p \in Procs |-> NoCall]
  /\ req = [p \in Procs |-> NoRequest]
  /\ isRetry = [p \in Procs |-> FALSE]
  /\ log = [p \in Procs |-> <<>>]
  /\ result = [p \in Procs |-> NoResult]
  /\ resolutions = <<>>
  /\ \E tls \in TaskListsOfBoard, ts \in TasksOfBoard :
       board = [cards |-> BoardCards, taskLists |-> SortByPosition(tls), tasks |-> ts]
  /\ boardPc = "fetched"
  /\ cardsWithCounts = <<>>
  /\ server = NoServer
  /\ wf = [p \in Procs |-> NoWorkflow]
  /\ nav = NoNav

\* part_004:63-119  getBoardWithTaskCounts after getBoard() returned
GetBoardWithTaskCounts ==
  /\ boardPc = "fetched"
  /\ boardPc' = "counted"
  /\ cardsWithCounts' =
       EnrichCards(board.cards,
                   TaskCountsByCard(board.tasks, TaskListToCard(board.taskLists)))
  /\ UNCHANGED <<board, clientVars, opsVars, nav>>

BoardNext == GetBoardWithTaskCounts

BoardSpec == BoardInit /\ [][BoardNext]_vars

(***************************************************************************)
(* C10: each card's taskCount is the number of included tasks whose task   *)
(* list belongs to that card, completedTaskCount the number of those that  *)
(* are completed; tasks of another card's task list or of an unknown task  *)
(* list do not count.                                                      *)
(***************************************************************************)
\* The tasks of the board whose task list is one of the card's task lists.
TasksOfCard(cardId) ==
  {k \in 1..Len(board.tasks) :
     \E j \in 1..Len(board.taskLists) :
       /\ board.taskLists[j].id = board.tasks[k].taskListId
       /\ board.taskLists[j].cardId = cardId}

C10_TaskCountsPerCard ==
  boardPc = "counted" =>
    /\ Len(cardsWithCounts) = Len(board.cards)
    /\ \A i \in 1..Len(board.cards) :
         /\ cardsWithCounts[i].id = board.cards[i].id
         /\ cardsWithCounts[i].listId = board.cards[i].listId
         /\ cardsWithCounts[i].taskCount = Cardinality(TasksOfCard(board.cards[i].id))
         /\ cardsWithCounts[i].completedTaskCount =
              Cardinality({k \in TasksOfCard(board.cards[i].id) : board.tasks[k].isCompleted})

\* Two task lists of two different cards, a task in each, one completed.
C10_Witness ==
  /\ boardPc = "counted"
  /\ Len(board.taskLists) = 2
  /\ board.taskLists[1].cardId = "c1"
  /\ board.taskLists[2].cardId = "c2"
  /\ Len(board.tasks) = 2
  /\ board.tasks[1].taskListId = board.taskLists[2].id
  /\ board.tasks[2].taskListId = board.taskLists[1].id
  /\ board.tasks[1].isCompleted
  /\ ~board.tasks[2].isCompleted
  /\ cardsWithCounts[1].taskCount = 1
  /\ cardsWithCounts[1].completedTaskCount = 0
  /\ cardsWithCounts[2].taskCount = 1
  /\ cardsWithCounts[2].completedTaskCount = 1

(***************************************************************************)
(* Request payloads and their schemas (requests.ts, in                     *)
(* src/src/schemas/responses.ts:98-213)                                    *)
(***************************************************************************)
\* A payload is a record holding the members that are present.
HasField(r, f) == f \in DOMAIN r

\* Schema.parse: [ok, value]; it throws a ZodError when ok is FALSE.
Invalid  == [ok |-> FALSE, value |-> NoInput]
Valid(v) == [ok |-> TRUE, value |-> v]

\* z.string().min(1) on a member that has to be there
NonEmptyField(i, f) == HasField(i, f) /\ i[f] # ""

\* z.string().min(1).optional()
OptionalNonEmpty(i, f) == HasField(i, f) => i[f] # ""

\* responses.ts:225-253  LabelColorSchema, the palette (two of its 27
\* members stand for all)
LabelColors == {"berry-red", "lagoon-blue"}

\* Colours a caller or the server may name: of the palette, or not
Colors == LabelColors \cup {"summer-sky", ""}

\* responses.ts:135  CreateTaskSchema
CreateTaskSchemaParse(i) ==
  IF HasField(i, "cardId") /\ NonEmptyField(i, "name")
  THEN Valid([cardId |-> i.cardId, name |-> i.name,
              position |-> IF HasField(i, "position") THEN i.position ELSE 65536])
  ELSE Invalid

\* responses.ts:142  UpdateTaskSchema
UpdateTaskSchemaParse(i) ==
  IF OptionalNonEmpty(i, "name") THEN Valid(i) ELSE Invalid

\* A BatchCreateTasksSchema that does not look into the tasks
BatchCreateTasksSchemaParse_AnyTasks(i) ==
  IF HasField(i, "cardId") /\ HasField(i, "tasks") THEN Valid(i) ELSE Invalid

\* responses.ts:149  BatchCreateTasksSchema
BatchCreateTasksSchemaParse(i) ==
  IF /\ HasField(i, "cardId")
     /\ HasField(i, "tasks")
     /\ \A k \in 1..Len(i.tasks) : NonEmptyField(i.tasks[k], "name")
  THEN Valid(i) ELSE Invalid

\* responses.ts:161  CreateLabelSchema
CreateLabelSchemaParse(i) ==
  IF /\ HasField(i, "boardId")
     /\ NonEmptyField(i, "name")
     /\ HasField(i, "color")
     /\ i.color \in LabelColors
  THEN Valid([boardId |-> i.boardId, name |-> i.name, color |-> i.color,
              position |-> IF HasField(i, "position") THEN i.position ELSE 65536])
  ELSE Invalid

\* responses.ts:169  UpdateLabelSchema
UpdateLabelSchemaParse(i) ==
  IF OptionalNonEmpty(i, "name") /\ (HasField(i, "color") => i.color \in LabelColors)
  THEN Valid(i) ELSE Invalid

\* responses.ts:176  AddLabelToCardSchema
AddLabelToCardSchemaParse(i) ==
  IF HasField(i, "cardId") /\ HasField(i, "labelId") THEN Valid(i) ELSE Invalid

\* responses.ts:189  CreateCommentSchema
CreateCommentSchemaParse(i) ==
  IF HasField(i, "cardId") /\ NonEmptyField(i, "text") THEN Valid(i) ELSE Invalid

\* responses.ts:195  UpdateCommentSchema
UpdateCommentSchemaParse(i) ==
  IF NonEmptyField(i, "text") THEN Valid(i) ELSE Invalid

\* responses.ts:201  CreateListSchema: position stays absent when not given
CreateListSchemaParse(i) ==
  IF HasField(i, "boardId") /\ NonEmptyField(i, "name") THEN Valid(i) ELSE Invalid

\* responses.ts:208  UpdateListSchema
UpdateListSchemaParse(i) ==
  IF OptionalNonEmpty(i, "name") THEN Valid(i) ELSE Invalid

\* responses.ts:126  MoveCardSchema
MoveCardSchemaParse(i) ==
  IF HasField(i, "cardId") /\ HasField(i, "listId")
  THEN Valid(IF HasField(i, "position") THEN i
             ELSE [f \in DOMAIN i \cup {"position"} |->
                     IF f = "position" THEN 65536 ELSE i[f]])
  ELSE Invalid

\* responses.ts:346  LabelSchema: color is z.string(), any string passes;
\* a member that is not a string ("absent") does not
LabelSchemaParse(l) ==
  IF HasField(l, "id") /\ HasField(l, "color") /\ l.color # "absent"
  THEN Valid(l) ELSE Invalid

(***************************************************************************)
(* Operations of tasks.ts, cards.ts (src/unnamed/part_005), lists.ts,      *)
(* labels.ts (src/unnamed/part_003), comments.ts (src/unnamed/part_002),   *)
(* boards.ts (src/unnamed/part_004) and the planka_manage_labels tool      *)
(* (src/src/client.ts:806-1028)                                            *)
(***************************************************************************)
\* The server has the card "c1"; a caller may also name a card that does
\* not exist.
RequestedCards == {"c1", "already-1"}
LabelIds == {"L1", "L2"}

CardExists(cardId) == cardId = "c1"

CreateTaskInputs ==
  {[cardId |-> "c1", name |-> "A"], [cardId |-> "c1", name |-> "A", position |-> 5],
   [cardId |-> "c1", name |-> ""], [name |-> "A"]}

TaskInputs == {[name |-> "A"], [name |-> "B", position |-> 5], [name |-> ""]}

BatchCreateTasksInputs ==
  {[cardId |-> "c1", tasks |-> ts] : ts \in SeqsUpTo(TaskInputs, MaxTasks)}
    \cup {[tasks |-> <<[name |-> "A"]>>]}

UpdateTaskInputs == {[name |-> "A"], [isCompleted |-> TRUE], [name |-> ""]}

CreateLabelInputs ==
  {[boardId |-> "b1", name |-> "Bug", color |-> c] : c \in Colors}
    \cup {[boardId |-> "b1", name |-> "", color |-> "berry-red"],
          [boardId |-> "b1", name |-> "Bug"]}

UpdateLabelInputs ==
  {[color |-> c] : c \in Colors} \cup {[name |-> "Bug"], [name |-> ""]}

\* What the tool is called with: action, and the members given
ManageLabelsInputs ==
  {[action |-> "create", boardId |-> "b1", name |-> "Bug", color |-> c] : c \in Colors}
    \cup {[action |-> "update", labelId |-> "L1", color |-> c] : c \in Colors}
    \cup {[action |-> "create", boardId |-> "b1", name |-> "Bug"],
          [action |-> "update", labelId |-> "L1", name |-> "Bug"]}

AddLabelToCardInputs ==
  {[cardId |-> "c1", labelId |-> l] : l \in LabelIds} \cup {[cardId |-> "c1"]}

CreateCommentInputs == {[cardId |-> "c1", text |-> "Hi"], [cardId |-> "c1", text |-> ""]}
UpdateCommentInputs == {[text |-> "Hi"], [text |-> ""]}

CreateListInputs ==
  {[boardId |-> "b1", name |-> "Todo"], [boardId |-> "b1", name |-> "Todo", position |-> 5],
   [boardId |-> "b1", name |-> ""]}

UpdateListInputs == {[name |-> "Todo"], [position |-> 5], [name |-> ""]}

MoveCardInputs ==
  {[cardId |-> "c1", listId |-> "l2"], [cardId |-> "c1", listId |-> "l2", boardId |-> "b2"],
   [cardId |-> "c1"]}

LabelLists == {<<>>, <<"L1">>, <<"L2">>, <<"L1", "L2">>}

SetCardLabelsInputs ==
  {[cardId |-> c, addLabelIds |-> a, removeLabelIds |-> r] :
     c \in RequestedCards, a \in LabelLists, r \in LabelLists}

RemoveLabelInputs == {[cardId |-> c, labelId |-> l] : c \in RequestedCards, l \in LabelIds}

OpCalls(op, inputs) == {[op |-> op, input |-> i] : i \in inputs}

WfCalls ==
  OpCalls("createTask", CreateTaskInputs)
    \cup OpCalls("createTasks", BatchCreateTasksInputs)
    \cup OpCalls("updateTask", UpdateTaskInputs)
    \cup OpCalls("createCard", CreateCardInputs)
    \cup OpCalls("updateCard", UpdateCardInputs)
    \cup OpCalls("moveCard", MoveCardInputs)
    \cup OpCalls("createLabel", CreateLabelInputs)
    \cup OpCalls("updateLabel", UpdateLabelInputs)
    \cup OpCalls("manageLabels", ManageLabelsInputs)
    \cup OpCalls("addLabelToCard", AddLabelToCardInputs)
    \cup OpCalls("removeLabelFromCard", RemoveLabelInputs)
    \cup OpCalls("setCardLabels", SetCardLabelsInputs)
    \cup OpCalls("createComment", CreateCommentInputs)
    \cup OpCalls("updateComment", UpdateCommentInputs)
    \cup OpCalls("createList", CreateListInputs)
    \cup OpCalls("updateList", UpdateListInputs)
    \cup OpCalls("getCard", {[cardId |-> "c1"]})
    \cup OpCalls("getBoard", {[boardId |-> "b1"]})

\* client.ts:845-898, 921-952  planka_manage_labels: what the handler checks
\* before it calls createLabel or updateLabel, and what it calls it with.
\* !params.x is true of an absent member and of "".
ManageLabelsCall(params) ==
  IF params.action = "create"
  THEN IF /\ NonEmptyField(params, "boardId")
          /\ NonEmptyField(params, "name")
          /\ NonEmptyField(params, "color")
          /\ params.color \in LabelColors
       THEN [ok |-> TRUE,
             call |-> [op |-> "createLabel",
                       input |-> [boardId |-> params.boardId, name |-> params.name,
                                  color |-> params.color]]]
       ELSE [ok |-> FALSE, call |-> NoCall]
  ELSE IF /\ NonEmptyField(params, "labelId")
          /\ HasField(params, "color") => params.color \in LabelColors
       THEN [ok |-> TRUE,
             call |-> [op |-> "updateLabel",
                       input |-> [f \in DOMAIN params \ {"action", "labelId"} |-> params[f]]]]
       ELSE [ok |-> FALSE, call |-> NoCall]

\* client.ts:685-690  planka_move_card: the handler calls moveCard with
\* position: params.position ?? 65536
MoveCardToolCall(params) ==
  [op |-> "moveCard",
   input |-> [cardId |-> params.cardId, listId |-> params.listId,
              position |-> IF HasField(params, "position") THEN params.position
                           ELSE 65536]]

\* The operation a call runs: the tool hands on to createLabel / updateLabel,
\* or to moveCard.
OperationOf(c) ==
  IF c.op = "manageLabels" /\ ManageLabelsCall(c.input).ok
  THEN ManageLabelsCall(c.input).call
  ELSE IF c.op = "planka_move_card" THEN MoveCardToolCall(c.input)
  ELSE c

\* The Schema.parse(input) an operation starts with.
WfValidate(c) ==
  CASE c.op = "createTask"     -> CreateTaskSchemaParse(c.input)
    [] c.op = "createTasks"    -> BatchCreateTasksSchemaParse(c.input)
    [] c.op = "updateTask"     -> UpdateTaskSchemaParse(c.input)
    [] c.op = "createCard"     -> CreateCardSchemaParse(c.input)
    [] c.op = "updateCard"     -> UpdateCardSchemaParse(c.input)
    [] c.op = "moveCard"       -> MoveCardSchemaParse(c.input)
    [] c.op = "createLabel"    -> CreateLabelSchemaParse(c.input)
    [] c.op = "updateLabel"    -> UpdateLabelSchemaParse(c.input)
    [] c.op = "addLabelToCard" -> AddLabelToCardSchemaParse(c.input)
    [] c.op = "createComment"  -> CreateCommentSchemaParse(c.input)
    [] c.op = "updateComment"  -> UpdateCommentSchemaParse(c.input)
    [] c.op = "createList"     -> CreateListSchemaParse(c.input)
    [] c.op = "updateList"     -> UpdateListSchemaParse(c.input)
    [] OTHER                   -> Valid(c.input)

\* One client call: method, path (its segments), body, and how it ended
\* ("pending", "ok", "fail").
ClientCall(method, path, body) ==
  [method |-> method, path |-> path, body |-> body, res |-> "pending"]

\* part_003:20-23  createList's body: position: validated.position ?? 65536
CreateListBody(validated) ==
  [name |-> validated.name,
   position |-> IF HasField(validated, "position") THEN validated.position ELSE 65536]

\* part_005:251-258  moveCard's payload
MoveCardBody(validated) ==
  IF HasField(validated, "boardId")
  THEN [listId |-> validated.listId, position |-> validated.position,
        boardId |-> validated.boardId]
  ELSE [listId |-> validated.listId, position |-> validated.position]

\* The client call of an operation that makes one call.
WfRequest(op, validated) ==
  CASE op = "createCard" ->
         ClientCall("POST", <<"api", "lists", "l1", "cards">>,
                    JsonBody(validated.name, validated.type))
    [] op = "updateCard" ->
         ClientCall("PATCH", <<"api", "cards", "c1">>,
                    JsonBody(validated.name, validated.type))
    [] op = "moveCard" ->
         ClientCall("PATCH", <<"api", "cards", validated.cardId>>, MoveCardBody(validated))
    [] op = "updateTask" ->
         ClientCall("PATCH", <<"api", "tasks", "t1">>, validated)
    [] op = "createLabel" ->
         ClientCall("POST", <<"api", "boards", validated.boardId, "labels">>,
                    [name |-> validated.name, color |-> validated.color,
                     position |-> validated.position])
    [] op = "updateLabel" ->
         ClientCall("PATCH", <<"api", "labels", "L1">>, validated)
    [] op = "addLabelToCard" ->
         ClientCall("POST", <<"api", "cards", validated.cardId, "card-labels">>,
                    [labelId |-> validated.labelId])
    [] op = "createComment" ->
         ClientCall("POST", <<"api", "cards", validated.cardId, "comments">>,
                    [text |-> validated.text])
    [] op = "updateComment" ->
         ClientCall("PATCH", <<"api", "comments", "cm1">>, validated)
    [] op = "createList" ->
         ClientCall("POST", <<"api", "boards", validated.boardId, "lists">>,
                    CreateListBody(validated))
    [] op = "updateList" ->
         ClientCall("PATCH", <<"api", "lists", "l1">>, validated)
    [] op = "getBoard" ->
         ClientCall("GET", <<"api", "boards", validated.boardId>>, NoBody)
    [] OTHER ->
         ClientCall("GET", <<"api", "cards", validated.cardId>>, NoBody)

\* part_005:208  getCard's call
GetCardCall(cardId) == ClientCall("GET", <<"api", "cards", cardId>>, NoBody)

(***************************************************************************)
(* The server as the operations see it through the client                  *)
(***************************************************************************)
TaskListIdOf(n) ==
  CASE n = 1 -> "tl1" [] n = 2 -> "tl2" [] n = 3 -> "tl3" [] OTHER -> "tl4"

CardLabelIdOf(labelId) == IF labelId = "L1" THEN "cl1" ELSE "cl2"
LabelOfCardLabel(id)   == IF id = "cl1" THEN "L1" ELSE "L2"

\* The task lists card "c1" may have when an operation starts.
ServerTaskLists ==
  {s \in SeqsUpTo([id : TaskListIds, cardId : {"c1"}, name : {"Checklist"},
                   position : Positions], Cardinality(TaskListIds)) :
     \A k \in 1..Len(s) : s[k].id = TaskListIdOf(k)}

\* The colour the server gives the board's label: of the palette, a string
\* outside it, or no string at all ("absent").
ServerColors == {"berry-red", "summer-sky", "absent"}

Servers == [cardLabels : SUBSET LabelIds, taskLists : ServerTaskLists, color : ServerColors]

\* The CardLabel records of the card, as GET /api/cards/c1 includes them
CardLabelsOf(srv) ==
  (IF "L1" \in srv.cardLabels
   THEN <<[id |-> CardLabelIdOf("L1"), cardId |-> "c1", labelId |-> "L1"]>> ELSE <<>>)
  \o (IF "L2" \in srv.cardLabels
      THEN <<[id |-> CardLabelIdOf("L2"), cardId |-> "c1", labelId |-> "L2"]>> ELSE <<>>)

\* The answer to GET /api/cards/c1: item and included
CardAnswer(srv) ==
  [item |-> "card",
   included |-> [taskLists |-> srv.taskLists, cardLabels |-> CardLabelsOf(srv),
                 labels |-> <<[id |-> "L1", boardId |-> "b1", color |-> srv.color]>>]]

\* A LabelSchema holding the colour to the palette
LabelsParse_Palette(labels) ==
  IF \A k \in 1..Len(labels) : labels[k].color \in LabelColors THEN Valid(labels) ELSE Invalid

\* z.array(LabelSchema).parse in LabelResponse, BoardIncludedSchema and
\* CardIncludedSchema (responses.ts:51, 69, 83)
LabelsParse(labels) ==
  IF \A k \in 1..Len(labels) : LabelSchemaParse(labels[k]).ok THEN Valid(labels) ELSE Invalid

\* part_005:207-225  getCard after the client returned: CardResponse.parse,
\* CardIncludedSchema.parse, taskLists sorted by position
GetCardDetails(answer) ==
  IF answer.item = "card" /\ LabelsParse(answer.included.labels).ok
  THEN Valid([cardLabels |-> answer.included.cardLabels,
              taskLists |-> SortByPosition(answer.included.taskLists),
              labels |-> answer.included.labels])
  ELSE Invalid

\* A find that takes the card's first CardLabel, whatever its label
FindCardLabel_First(cardLabels, labelId) ==
  IF Len(cardLabels) > 0 THEN cardLabels[1].id ELSE ""

\* part_003:150-152  cardDetails.cardLabels.find(cl => cl.labelId === labelId);
\* "" stands for undefined
FindCardLabel(cardLabels, labelId) ==
  LET hits == {k \in 1..Len(cardLabels) : cardLabels[k].labelId = labelId}
  IN  IF hits = {} THEN ""
      ELSE cardLabels[CHOOSE k \in hits : \A j \in hits : k <= j].id

\* A call that names a card in its path reaches a resource only when the
\* card exists.
TargetExists(c) == (Len(c.path) >= 3 /\ c.path[2] = "cards") => CardExists(c.path[3])

\* How a client call can fail: the server answers 404 or 500 (the client
\* makes the error with createPlankaError), or the connection fails.
ClientErrors(c) ==
  LET ctx == <<c.method, c.path>> IN
  {CreatePlankaError(404, Obj("Not found", "none", "none"), ctx),
   CreatePlankaError(500, Obj("Internal server error", "none", "none"), ctx),
   RequestNetworkError("TypeError", ctx)}

\* The server's answer to attaching a label the card has: 409, E_CONFLICT
ConflictError(c) ==
  CreatePlankaError(409, Obj("Label already in card", "none", "none"), <<c.method, c.path>>)

\* The texts of the model that have "already" in them.
TextsWithAlready == {"Label already in card", "already-1"}

\* A catch that swallows every failed add
MessageIncludesAlready_Always(err) == TRUE

\* part_003:192-193  message.includes("already"): the message of an error
\* of createPlankaError is the body's message and " (METHOD path)"
\* (errors.ts:70-75), of PlankaNotFoundError "Resource not found: METHOD
\* path", of a network error "Network error: METHOD path" (client.ts:188);
\* a ZodError's message lists the issues.
MessageIncludesAlready(err) ==
  IF err.message.text = "" THEN FALSE
  ELSE \/ err.message.bodyMsg \in TextsWithAlready
       \/ \E k \in 1..Len(err.message.ctx[2]) : err.message.ctx[2][k] \in TextsWithAlready

\* A fallback only after a 404
FallsBack_Only404(err) == err.status = 404

\* part_003:160-167  catch { ... }: every failure of the direct DELETE
FallsBack(err) == TRUE

(***************************************************************************)
(* The operations, cut at their awaits                                     *)
(***************************************************************************)
\* The operation calls the client and waits for it.
Sent(w, c, at) == [w EXCEPT !.log = Append(@, c), !.pc = at]

\* The client call the operation waits for, and the call ended.
Pending(w) == w.log[Len(w.log)]
Answered(w, res) == [w EXCEPT !.log[Len(w.log)].res = res]

\* The operation returns or throws.
Finish(w, r) == [w EXCEPT !.pc = "done", !.result = r]

\* part_005:80-86 createTask, :106-113 createTasks  POST the next task
TaskCall(taskListId, body) ==
  ClientCall("POST", <<"api", "task-lists", taskListId, "tasks">>, body)

SendTask(w) ==
  IF w.op = "createTask"
  THEN Sent(w, TaskCall(w.taskList, [name |-> w.v.name, position |-> w.v.position]),
            "task_wait")
  ELSE IF w.i > Len(w.v.tasks) THEN Finish(w, Return([t |-> "tasks", n |-> Len(w.v.tasks)]))
  ELSE LET taskInput == w.v.tasks[w.i]
       IN  Sent(w, TaskCall(w.taskList,
                            [name |-> taskInput.name,
                             position |-> IF HasField(taskInput, "position")
                                          THEN taskInput.position ELSE w.position]),
                "task_wait")

\* part_005:101-104  the task list is known: let position = 65536, first task
WithTaskList(w, taskListId) ==
  SendTask([w EXCEPT !.taskList = taskListId, !.i = 1, !.position = 65536])

\* part_005:38-44  POST the default task list
DefaultTaskListCall(cardId) ==
  ClientCall("POST", <<"api", "cards", cardId, "task-lists">>,
             [name |-> "Tasks", position |-> 65536])

\* A choice of the task list with the highest position
DefaultTaskList_Last(taskLists) == SortByPosition(taskLists)[Len(taskLists)]

\* part_005:34  cardDetails.taskLists.sort((a, b) => a.position - b.position)[0]
DefaultTaskList(taskLists) == SortByPosition(taskLists)[1]

\* part_003:186-189  the next addLabelToCard of setCardLabels, or its end
SendAdd(w) ==
  IF w.i > Len(w.v.addLabelIds) THEN Finish(w, Return(UndefinedData))
  ELSE Sent(w, WfRequest("addLabelToCard",
                         AddLabelToCardSchemaParse(
                           [cardId |-> w.v.cardId, labelId |-> w.v.addLabelIds[w.i]]).value),
            "add_wait")

\* part_003:179-183  a removal is over: removeLabelFromCard returns;
\* setCardLabels goes to its next removal, then to its adds
AfterRemoval(w) ==
  IF w.op = "removeLabelFromCard" THEN Finish(w, Return(UndefinedData))
  ELSE IF w.i < Len(w.v.removeLabelIds)
  THEN Sent([w EXCEPT !.i = @ + 1, !.cardLabel = ""], GetCardCall(w.v.cardId), "card_wait")
  ELSE SendAdd([w EXCEPT !.i = 1, !.cardLabel = ""])

\* The label a removal is about.
LabelToRemove(w) ==
  IF w.op = "removeLabelFromCard" THEN w.v.labelId ELSE w.v.removeLabelIds[w.i]

\* What the caller of getCard does with the card's details:
\* part_005:32-44 getOrCreateDefaultTaskList, part_003:150-161
\* removeLabelFromCard
AfterCard(w, details) ==
  CASE w.op \in {"createTask", "createTasks"} ->
         IF Len(details.taskLists) > 0
         THEN WithTaskList(w, DefaultTaskList(details.taskLists).id)
         ELSE Sent(w, DefaultTaskListCall(w.v.cardId), "tasklist_wait")
    [] w.op = "getCard" -> Finish(w, Return(details))
    [] OTHER ->
         LET cl == FindCardLabel(details.cardLabels, LabelToRemove(w))
         IN  IF cl = "" THEN AfterRemoval(w)
             ELSE Sent([w EXCEPT !.cardLabel = cl],
                       ClientCall("DELETE", <<"api", "card-labels", cl>>, NoBody),
                       "delete_wait")

\* The first client call of an operation whose input is valid.
FirstStep(w) ==
  CASE w.op \in {"createTask", "createTasks", "removeLabelFromCard", "getCard"} ->
         Sent(w, GetCardCall(w.v.cardId), "card_wait")
    [] w.op = "setCardLabels" ->
         IF Len(w.v.removeLabelIds) > 0
         THEN Sent([w EXCEPT !.i = 1], GetCardCall(w.v.cardId), "card_wait")
         ELSE SendAdd([w EXCEPT !.i = 1])
    [] w.op = "addLabelToCard" -> Sent(w, WfRequest(w.op, w.v), "add_wait")
    [] OTHER -> Sent(w, WfRequest(w.op, w.v), "call_wait")

\* The operation (or the planka_manage_labels tool) c is invoked: the tool
\* checks its parameters, the operation parses its input, then calls the
\* client.
InvokeOpCall(p, c) ==
  /\ wf[p].pc = "idle"
  /\ ncalls < MaxCalls
  /\ ncalls' = ncalls + 1
  /\ LET o == OperationOf(c)
         v == WfValidate(o)
         w == [NoWorkflow EXCEPT !.op = c.op, !.input = c.input, !.before = server]
     IN  wf' = [wf EXCEPT ![p] =
                  IF c.op = "manageLabels" /\ ~ManageLabelsCall(c.input).ok
                  THEN Finish(w, Return([isError |-> TRUE]))
                  ELSE IF ~v.ok THEN Finish(w, Throw(ZodError))
                  ELSE FirstStep([w EXCEPT !.op = o.op, !.v = v.value])]
  /\ UNCHANGED <<server, nav, boardVars>>
  /\ UNCHANGED <<env, config, token, tokenExpiresAt, now, nticks, nextTok,
                 pc, call, req, isRetry, log, result, resolutions>>

\* An operation is invoked while no other is running.
InvokeOp(p) ==
  /\ \A q \in Procs : wf[q].pc = "idle"
  /\ \E c \in WfCalls : InvokeOpCall(p, c)

\* Nothing but the running operation changes.
OnlyWf == UNCHANGED <<clientVars, boardVars, nav>>

\* part_005:207-225  getCard's client call ended
CardAnswered(p) ==
  LET w == wf[p] IN
  /\ w.pc = "card_wait"
  /\ \/ \E err \in ClientErrors(Pending(w)) :
          wf' = [wf EXCEPT ![p] = Finish(Answered(w, "fail"), Throw(err))]
     \/ /\ TargetExists(Pending(w))
        /\ LET d == GetCardDetails(CardAnswer(server))
           IN  wf' = [wf EXCEPT ![p] =
                        IF d.ok THEN AfterCard(Answered(w, "ok"), d.value)
                        ELSE Finish(Answered(w, "ok"), Throw(ZodError))]
  /\ UNCHANGED server
  /\ OnlyWf

\* part_005:38-47  the POST of the default task list ended; the answer may
\* not be a TaskList (TaskListResponse.parse throws)
TaskListAnswered(p) ==
  LET w == wf[p] IN
  /\ w.pc = "tasklist_wait"
  /\ \/ /\ \E err \in ClientErrors(Pending(w)) :
             wf' = [wf EXCEPT ![p] = Finish(Answered(w, "fail"), Throw(err))]
        /\ UNCHANGED server
     \/ /\ TargetExists(Pending(w))
        /\ Len(server.taskLists) < 4
        /\ LET id == TaskListIdOf(Len(server.taskLists) + 1) IN
           /\ server' = [server EXCEPT !.taskLists =
                           Append(@, [id |-> id, cardId |-> "c1",
                                      name |-> Pending(w).body.name,
                                      position |-> Pending(w).body.position])]
           /\ \E wellFormed \in BOOLEAN :
                wf' = [wf EXCEPT ![p] =
                         IF wellFormed THEN WithTaskList(Answered(w, "ok"), id)
                         ELSE Finish(Answered(w, "ok"), Throw(ZodError))]
  /\ OnlyWf

\* A counter that stands still
NextPosition_Same(position) == position

\* part_005:117  position += 65536
NextPosition(position) == position + 65536

\* part_005:88-89, 115-117  the POST of a task ended
TaskAnswered(p) ==
  LET w == wf[p] IN
  /\ w.pc = "task_wait"
  /\ \/ \E err \in ClientErrors(Pending(w)) :
          wf' = [wf EXCEPT ![p] = Finish(Answered(w, "fail"), Throw(err))]
     \/ wf' = [wf EXCEPT ![p] =
                 IF w.op = "createTask"
                 THEN Finish(Answered(w, "ok"), Return([t |-> "task"]))
                 ELSE SendTask([Answered(w, "ok") EXCEPT !.i = @ + 1,
                                                         !.position = NextPosition(@)])]
  /\ UNCHANGED server
  /\ OnlyWf

\* The card loses the label of a CardLabel record.
Detached(srv, cardLabel) ==
  [srv EXCEPT !.cardLabels = @ \ {LabelOfCardLabel(cardLabel)}]

\* part_003:160-167  DELETE /api/card-labels/{id} ended
DeleteAnswered(p) ==
  LET w == wf[p] IN
  /\ w.pc = "delete_wait"
  /\ \/ /\ \E err \in ClientErrors(Pending(w)) :
             wf' = [wf EXCEPT ![p] =
                      IF FallsBack(err)
                      THEN Sent(Answered(w, "fail"),
                                ClientCall("DELETE",
                                           <<"api", "cards", w.v.cardId, "card-labels",
                                             w.cardLabel>>, NoBody),
                                "fallback_wait")
                      ELSE Finish(Answered(w, "fail"), Throw(err))]
        /\ UNCHANGED server
     \/ /\ server' = Detached(server, w.cardLabel)
        /\ wf' = [wf EXCEPT ![p] = AfterRemoval(Answered(w, "ok"))]
  /\ OnlyWf

\* part_003:164-166  DELETE /api/cards/{cardId}/card-labels/{id} ended
FallbackAnswered(p) ==
  LET w == wf[p] IN
  /\ w.pc = "fallback_wait"
  /\ \/ /\ \E err \in ClientErrors(Pending(w)) :
             wf' = [wf EXCEPT ![p] = Finish(Answered(w, "fail"), Throw(err))]
        /\ UNCHANGED server
     \/ /\ TargetExists(Pending(w))
        /\ server' = Detached(server, w.cardLabel)
        /\ wf' = [wf EXCEPT ![p] = AfterRemoval(Answered(w, "ok"))]
  /\ OnlyWf

\* part_003:190-196  the catch around addLabelToCard in setCardLabels;
\* addLabelToCard called on its own (part_003:123-135) throws what it gets
AddFailed(w, err, attached) ==
  IF w.op = "setCardLabels" /\ MessageIncludesAlready(err)
  THEN SendAdd([Answered(w, "fail") EXCEPT
                  !.i = @ + 1,
                  !.swallowed = Append(@, [error |-> err, attached |-> attached])])
  ELSE Finish(Answered(w, "fail"), Throw(err))

\* part_003:126-134  POST /api/cards/{cardId}/card-labels ended: the label
\* is attached, or the card has it (409), or the call failed otherwise
AddAnswered(p) ==
  LET w == wf[p]
      labelId == Pending(w).body.labelId
      attached == TargetExists(Pending(w)) /\ labelId \in server.cardLabels
  IN
  /\ w.pc = "add_wait"
  /\ \/ /\ \E err \in ClientErrors(Pending(w)) :
             wf' = [wf EXCEPT ![p] = AddFailed(w, err, attached)]
        /\ UNCHANGED server
     \/ /\ attached
        /\ wf' = [wf EXCEPT ![p] = AddFailed(w, ConflictError(Pending(w)), attached)]
        /\ UNCHANGED server
     \/ /\ TargetExists(Pending(w))
        /\ ~attached
        /\ server' = [server EXCEPT !.cardLabels = @ \cup {labelId}]
        /\ wf' = [wf EXCEPT ![p] =
                    IF w.op = "setCardLabels"
                    THEN SendAdd([Answered(w, "ok") EXCEPT !.i = @ + 1])
                    ELSE Finish(Answered(w, "ok"), Return([t |-> "cardLabel"]))]
  /\ OnlyWf

\* What an operation with one client call returns from the answer:
\* LabelResponse.parse (part_003:90, 108), BoardIncludedSchema.parse
\* (part_004:42-44), or the item of the answer
CallReturn(w, srv) ==
  CASE w.op \in {"createLabel", "updateLabel"} ->
         LET label == [id |-> "L1", boardId |-> "b1",
                       color |-> IF HasField(w.v, "color") THEN w.v.color ELSE srv.color]
         IN  IF LabelsParse(<<label>>).ok THEN Return(label) ELSE Throw(ZodError)
    [] w.op = "getBoard" ->
         LET labels == <<[id |-> "L1", boardId |-> "b1", color |-> srv.color]>>
         IN  IF LabelsParse(labels).ok THEN Return([labels |-> labels])
             ELSE Throw(ZodError)
    [] OTHER -> Return([t |-> "item"])

\* The client call of an operation that makes one call ended
CallAnswered(p) ==
  LET w == wf[p] IN
  /\ w.pc = "call_wait"
  /\ \/ \E err \in ClientErrors(Pending(w)) :
          wf' = [wf EXCEPT ![p] = Finish(Answered(w, "fail"), Throw(err))]
     \/ /\ TargetExists(Pending(w))
        /\ wf' = [wf EXCEPT ![p] = Finish(Answered(w, "ok"), CallReturn(w, server))]
  /\ UNCHANGED server
  /\ OnlyWf

\* The caller takes the result.
ResumeOp(p) ==
  /\ wf[p].pc = "done"
  /\ wf' = [wf EXCEPT ![p] = NoWorkflow]
  /\ UNCHANGED server
  /\ OnlyWf

\* The client idle with a valid configuration, the server in any of its
\* states, no operation running.
OpsInit ==
  /\ env = [baseUrl |-> "http://planka", email |-> "agent@example.com", password |-> "secret"]
  /\ config = NoConfig
  /\ token = Null
  /\ tokenExpiresAt = 0
  /\ now = StartTime
  /\ nticks = 0
  /\ nextTok = 1
  /\ ncalls = 0
  /\ pc = [p \in Procs |-> "idle"]
  /\ call = [p \in Procs |-> NoCall]
  /\ req = [p \in Procs |-> NoRequest]
  /\ isRetry = [p \in Procs |-> FALSE]
  /\ log = [p \in Procs |-> <<>>]
  /\ result = [p \in Procs |-> NoResult]
  /\ resolutions = <<>>
  /\ board = [cards |-> <<>>, taskLists |-> <<>>, tasks |-> <<>>]
  /\ boardPc = "off"
  /\ cardsWithCounts = <<>>
  /\ server \in Servers
  /\ wf = [p \in Procs |-> NoWorkflow]
  /\ nav = NoNav

OpsNext ==
  \/ \E p \in Procs : InvokeOp(p)
  \/ \E p \in Procs : CardAnswered(p)
  \/ \E p \in Procs : TaskListAnswered(p)
  \/ \E p \in Procs : TaskAnswered(p)
  \/ \E p \in Procs : DeleteAnswered(p)
  \/ \E p \in Procs : FallbackAnswered(p)
  \/ \E p \in Procs : AddAnswered(p)
  \/ \E p \in Procs : CallAnswered(p)
  \/ \E p \in Procs : ResumeOp(p)

OpsSpec == OpsInit /\ [][OpsNext]_vars

(***************************************************************************)
(* Reading an operation's client calls                                     *)
(***************************************************************************)
IsTaskListPost(c) ==
  c.method = "POST" /\ c.path[2] = "cards" /\ Len(c.path) = 4 /\ c.path[4] = "task-lists"

IsTaskPost(c) ==
  c.method = "POST" /\ c.path[2] = "task-lists" /\ Len(c.path) = 4 /\ c.path[4] = "tasks"

IsDelete(c) == c.method = "DELETE"

IsCardLabelPost(c) ==
  c.method = "POST" /\ c.path[2] = "cards" /\ Len(c.path) = 4 /\ c.path[4] = "card-labels"

IsCardGet(c) == c.method = "GET" /\ c.path[2] = "cards" /\ Len(c.path) = 3

\* The positions in the log of the calls of a kind.
CallsOf(w, Kind(_)) == {k \in 1..Len(w.log) : Kind(w.log[k])}

\* The operation ended and returned.
Returned(w) == w.pc = "done" /\ w.result.ok

\* The operation ended and threw.
Threw(w) == w.pc = "done" /\ ~w.result.ok

(***************************************************************************)
(* C11: createTask / createTasks on a card with no task list creates one   *)
(* task list named "Tasks", and creates it before any of the tasks; on a   *)
(* card with task lists it creates none and adds the tasks to the task     *)
(* list with the lowest position.                                          *)
(***************************************************************************)
\* A task-creation operation that has got the card's details.
CreatesTasks(w) ==
  /\ w.op \in {"createTask", "createTasks"}
  /\ Len(w.log) >= 1
  /\ w.log[1].res = "ok"
  /\ ~(Threw(w) /\ Len(w.log) = 1)

C11_DefaultTaskList ==
  \A p \in Procs :
    LET w == wf[p]
        lists == w.before.taskLists
        created == CallsOf(w, IsTaskListPost)
        tasks == CallsOf(w, IsTaskPost)
    IN  CreatesTasks(w) =>
          IF lists = <<>>
          THEN /\ Len(w.log) >= 2
               /\ created = {2}
               /\ w.log[2].body.name = "Tasks"
               /\ Len(server.taskLists) <= 1
               /\ \A k \in tasks :
                    /\ w.log[2].res = "ok"
                    /\ Len(server.taskLists) = 1
                    /\ server.taskLists[1].name = "Tasks"
                    /\ w.log[k].path[3] = server.taskLists[1].id
               /\ Returned(w) => Len(server.taskLists) = 1
          ELSE /\ created = {}
               /\ server.taskLists = lists
               /\ \A k \in tasks :
                    \E j \in 1..Len(lists) :
                      /\ w.log[k].path[3] = lists[j].id
                      /\ \A i \in 1..Len(lists) : lists[j].position <= lists[i].position
               /\ Returned(w) /\ w.op = "createTasks" =>
                    Cardinality(tasks) = Len(w.input.tasks)

\* createTasks of two tasks on a card without a task list has returned:
\* the task list was posted, then the two tasks.
C11_Witness ==
  \E p \in Procs :
    /\ wf[p].op = "createTasks"
    /\ Returned(wf[p])
    /\ wf[p].before.taskLists = <<>>
    /\ Len(wf[p].log) = 4
    /\ IsTaskListPost(wf[p].log[2])
    /\ IsTaskPost(wf[p].log[3])
    /\ IsTaskPost(wf[p].log[4])

(***************************************************************************)
(* C12: setCardLabels makes every call of its removals before the first    *)
(* call of its additions, and when it returns, a label named in both       *)
(* lists is attached to the card, attached before or not.                  *)
(***************************************************************************)
\* The members of a list of label ids.
Members(s) == {s[k] : k \in 1..Len(s)}

C12_RemoveThenAdd ==
  \A p \in Procs :
    LET w == wf[p] IN
    w.op = "setCardLabels" =>
      /\ \A j \in CallsOf(w, IsCardGet) \cup CallsOf(w, IsDelete) :
           \A k \in CallsOf(w, IsCardLabelPost) : j < k
      /\ Returned(w) =>
           \A l \in Members(w.input.addLabelIds) \cap Members(w.input.removeLabelIds) :
             l \in server.cardLabels

\* setCardLabels(c1, [L1], [L1]) on a card that has L1 has returned: the
\* label was deleted, then posted, and the card has it.
C12_Witness ==
  \E p \in Procs :
    /\ wf[p].op = "setCardLabels"
    /\ Returned(wf[p])
    /\ wf[p].input.addLabelIds = <<"L1">>
    /\ wf[p].input.removeLabelIds = <<"L1">>
    /\ "L1" \in wf[p].before.cardLabels
    /\ Len(wf[p].log) = 3
    /\ IsDelete(wf[p].log[2]) /\ wf[p].log[2].res = "ok"
    /\ IsCardLabelPost(wf[p].log[3]) /\ wf[p].log[3].res = "ok"
    /\ "L1" \in server.cardLabels

(***************************************************************************)
(* C13: removeLabelFromCard on a card whose fetched CardLabel records have *)
(* none with the label returns without error, its only client call is the *)
(* fetch of the card, and the card's labels are as they were.              *)
(***************************************************************************)
\* removeLabelFromCard has ended, and getCard had returned the card's
\* details to it.
RemovalEnded(w) ==
  /\ w.op = "removeLabelFromCard"
  /\ w.pc = "done"
  /\ Len(w.log) >= 1
  /\ w.log[1].res = "ok"
  /\ GetCardDetails(CardAnswer(w.before)).ok

C13_NoMatchNoDelete ==
  \A p \in Procs :
    LET w == wf[p] IN
    RemovalEnded(w) /\ w.input.labelId \notin w.before.cardLabels =>
      /\ w.result = Return(UndefinedData)
      /\ Len(w.log) = 1
      /\ IsCardGet(w.log[1])
      /\ CallsOf(w, IsDelete) = {}
      /\ server = w.before

\* removeLabelFromCard(c1, L1) on a card that has only L2 has returned.
C13_Witness ==
  \E p \in Procs :
    /\ RemovalEnded(wf[p])
    /\ wf[p].input.labelId = "L1"
    /\ wf[p].before.cardLabels = {"L2"}
    /\ Returned(wf[p])
    /\ Len(wf[p].log) = 1
    /\ server.cardLabels = {"L2"}

(***************************************************************************)
(* C14: with a matching CardLabel, removeLabelFromCard first tries DELETE  *)
(* /api/card-labels/{id}; it tries DELETE /api/cards/{cardId}/card-labels/ *)
(* {id} if and only if the first failed, for whatever reason; it returns   *)
(* when either succeeded and throws only when both failed.                 *)
(***************************************************************************)
IsDirectDelete(c, id) == c.method = "DELETE" /\ c.path = <<"api", "card-labels", id>>

IsNestedDelete(c, cardId, id) ==
  c.method = "DELETE" /\ c.path = <<"api", "cards", cardId, "card-labels", id>>

C14_DeleteFallback ==
  \A p \in Procs :
    LET w == wf[p]
        id == CardLabelIdOf(w.input.labelId)
    IN  RemovalEnded(w) /\ w.input.labelId \in w.before.cardLabels =>
          /\ Len(w.log) \in {2, 3}
          /\ IsDirectDelete(w.log[2], id)
          /\ (Len(w.log) = 3) <=> (w.log[2].res = "fail")
          /\ Len(w.log) = 3 => IsNestedDelete(w.log[3], w.input.cardId, id)
          /\ Returned(w) <=> (\E k \in 2..Len(w.log) : w.log[k].res = "ok")
          /\ Threw(w) <=> (\A k \in 2..Len(w.log) : w.log[k].res = "fail")
          /\ Threw(w) => Len(w.log) = 3
          /\ Returned(w) => w.input.labelId \notin server.cardLabels

\* The direct DELETE failed, the nested DELETE succeeded, and
\* removeLabelFromCard returned.
C14_Witness ==
  \E p \in Procs :
    /\ RemovalEnded(wf[p])
    /\ wf[p].input.labelId \in wf[p].before.cardLabels
    /\ Len(wf[p].log) = 3
    /\ wf[p].log[2].res = "fail"
    /\ wf[p].log[3].res = "ok"
    /\ Returned(wf[p])

(***************************************************************************)
(* C15: in setCardLabels the adds whose failure is swallowed are exactly   *)
(* the adds that failed because the card has the label already (the        *)
(* server's 409); every other failed add makes setCardLabels throw that    *)
(* error.                                                                  *)
(***************************************************************************)
C15_SwallowsOnlyAlreadyAttached ==
  \A p \in Procs :
    LET w == wf[p] IN
    w.op = "setCardLabels" =>
      /\ \A k \in 1..Len(w.swallowed) :
           /\ w.swallowed[k].attached
           /\ w.swallowed[k].error.status = 409
      /\ Threw(w) /\ IsCardLabelPost(w.log[Len(w.log)]) => w.result.error.status # 409

(***************************************************************************)
(* Structure assembly: getStructure (src/src/operations/projects.ts) and   *)
(* the planka_get_structure handler (src/unnamed/part_007:11-54)           *)
(***************************************************************************)
MaxLists == 2

\* null, as the name and as the position of a system list
NullName == "(null)"
NullPosition == -1

ListNames == {NullName, "Todo"}
ListPositions == {NullPosition} \cup Positions

\* A stable sort by a numeric key, as Array.prototype.sort with a
\* difference of keys as its comparator
StableSort(s, Key(_)) ==
  LET Rank(i) == Cardinality({j \in 1..Len(s) :
                                \/ Key(s[j]) < Key(s[i])
                                \/ Key(s[j]) = Key(s[i]) /\ j < i}) + 1
  IN  [k \in 1..Len(s) |-> s[CHOOSE i \in 1..Len(s) : Rank(i) = k]]

\* A comparator that finds every two lists equal
ListSortKey_Same(l) == 0

\* projects.ts:77  a.position ?? 0
ListSortKey(l) == IF l.position = NullPosition THEN 0 ELSE l.position

\* projects.ts:84  a.board.position
BoardSortKey(b) == b.board.position

\* The boards GET /api/projects includes: b1 and b2, in either order; b2 may
\* belong to another project.
NavBoards ==
  LET Both(p1, p2, owner) ==
        <<[id |-> "b1", projectId |-> "p1", name |-> "Dev", position |-> p1],
          [id |-> "b2", projectId |-> owner, name |-> "Ops", position |-> p2]>>
  IN  UNION {{Both(p1, p2, o), <<Both(p1, p2, o)[2], Both(p1, p2, o)[1]>>} :
               p1 \in Positions, p2 \in Positions, o \in {"p1", "p2"}}

\* The lists GET /api/boards/b1 includes: up to MaxLists lists, each with a
\* name or null, a position or null
NavListsOfB1 ==
  {s \in SeqsUpTo([id : {"l1", "l2", "l3"}, boardId : {"b1"}, name : ListNames,
                   position : ListPositions], MaxLists) :
     \A k \in 1..Len(s) : s[k].id = (CASE k = 1 -> "l1" [] k = 2 -> "l2" [] OTHER -> "l3")}

\* The lists GET /api/boards/b2 includes
NavListsOfB2 ==
  <<[id |-> "l8", boardId |-> "b2", name |-> "Done", position |-> 2],
    [id |-> "l9", boardId |-> "b2", name |-> NullName, position |-> NullPosition]>>

\* What the server holds: the boards, and each board's lists
NavAnswers ==
  {[boards |-> bs, lists |-> [b \in {"b1", "b2"} |-> IF b = "b1" THEN l1 ELSE NavListsOfB2]] :
     bs \in NavBoards, l1 \in NavListsOfB1}

\* projects.ts:46-53  the project's boards (the one project is "p1")
ProjectBoards(boards, projectId) ==
  SelectSeq(boards, LAMBDA b : b.projectId = projectId)

\* A filter that lets every list through
IsUserList_All(l) == TRUE

\* part_007:37  .filter((l) => l.name !== null)
IsUserList(l) == l.name # NullName

\* part_007:33-42  a board of the handler's output
FormatBoard(b) ==
  [id |-> b.board.id, name |-> b.board.name,
   lists |-> LET kept == SelectSeq(b.lists, IsUserList)
             IN  [k \in 1..Len(kept) |-> [id |-> kept[k].id, name |-> kept[k].name]]]

\* The handler is called; getStructure has got the projects and their
\* boards (projects.ts:43-53).
StructureInit ==
  /\ env = [baseUrl |-> "http://planka", email |-> "agent@example.com", password |-> "secret"]
  /\ config = NoConfig
  /\ token = Null
  /\ tokenExpiresAt = 0
  /\ now = StartTime
  /\ nticks = 0
  /\ nextTok = 1
  /\ ncalls = 0
  /\ pc = [p \in Procs |-> "idle"]
  /\ call = [p \in Procs |-> NoCall]
  /\ req = [p \in Procs |-> NoRequest]
  /\ isRetry = [p \in Procs |-> FALSE]
  /\ log = [p \in Procs |-> <<>>]
  /\ result = [p \in Procs |-> NoResult]
  /\ resolutions = <<>>
  /\ board = [cards |-> <<>>, taskLists |-> <<>>, tasks |-> <<>>]
  /\ boardPc = "off"
  /\ cardsWithCounts = <<>>
  /\ server = NoServer
  /\ wf = [p \in Procs |-> NoWorkflow]
  /\ \E a \in NavAnswers :
       nav = [pc |-> "boards", answer |-> a, i |-> 1, structure |-> <<>>, formatted |-> <<>>]

NavOnly == UNCHANGED <<clientVars, boardVars, opsVars>>

\* projects.ts:56-79  the next board's lists are fetched, parsed, sorted
FetchBoardLists ==
  LET boards == ProjectBoards(nav.answer.boards, "p1") IN
  /\ nav.pc = "boards"
  /\ nav.i <= Len(boards)
  /\ nav' = [nav EXCEPT
               !.i = @ + 1,
               !.structure =
                 Append(@, [board |-> boards[nav.i],
                            lists |-> StableSort(nav.answer.lists[boards[nav.i].id],
                                                 ListSortKey)])]
  /\ NavOnly

\* client.ts:184-205  the fetch of a board fails: getStructure throws
FetchBoardFails ==
  /\ nav.pc = "boards"
  /\ nav.i <= Len(ProjectBoards(nav.answer.boards, "p1"))
  /\ nav' = [nav EXCEPT !.pc = "failed", !.structure = <<>>]
  /\ NavOnly

\* projects.ts:81-89  getStructure returns the project with its boards
\* sorted by position
ReturnStructure ==
  /\ nav.pc = "boards"
  /\ nav.i > Len(ProjectBoards(nav.answer.boards, "p1"))
  /\ nav' = [nav EXCEPT !.pc = "assembled",
                        !.structure = StableSort(nav.structure, BoardSortKey)]
  /\ NavOnly

\* part_007:28-43  the handler formats getStructure's result
FormatStructure ==
  /\ nav.pc = "assembled"
  /\ nav' = [nav EXCEPT !.pc = "formatted",
                        !.formatted = [k \in 1..Len(nav.structure) |->
                                         FormatBoard(nav.structure[k])]]
  /\ NavOnly

StructureNext ==
  \/ FetchBoardLists
  \/ FetchBoardFails
  \/ ReturnStructure
  \/ FormatStructure

StructureSpec == StructureInit /\ [][StructureNext]_vars

(***************************************************************************)
(* C16: in the output of structure assembly (planka_get_structure) a       *)
(* board's lists hold no list whose name is null and hold every list of    *)
(* the board whose name is not null.                                       *)
(***************************************************************************)
C16_NullNameListsOmitted ==
  nav.pc = "formatted" =>
    /\ {nav.formatted[k].id : k \in 1..Len(nav.formatted)} =
         {nav.answer.boards[k].id :
            k \in {i \in 1..Len(nav.answer.boards) : nav.answer.boards[i].projectId = "p1"}}
    /\ \A k \in 1..Len(nav.formatted) :
         LET out == nav.formatted[k].lists
             all == nav.answer.lists[nav.formatted[k].id]
         IN  /\ \A j \in 1..Len(out) : out[j].name # NullName
             /\ {out[j] : j \in 1..Len(out)} =
                  {[id |-> all[j].id, name |-> all[j].name] :
                     j \in {i \in 1..Len(all) : all[i].name # NullName}}
             /\ Len(out) = Cardinality({i \in 1..Len(all) : all[i].name # NullName})

\* Board b1 has a list without a name and a list "Todo"; the output shows
\* the one list, while getStructure returned both.
C16_Witness ==
  /\ nav.pc = "formatted"
  /\ Len(nav.answer.lists["b1"]) = 2
  /\ nav.answer.lists["b1"][1].name = NullName
  /\ nav.answer.lists["b1"][2].name = "Todo"
  /\ \E k \in 1..Len(nav.formatted) :
       /\ nav.formatted[k].id = "b1"
       /\ nav.formatted[k].lists = <<[id |-> "l2", name |-> "Todo"]>>
       /\ Len(nav.structure[k].lists) = 2

(***************************************************************************)
(* C17 as stated: a createCard whose input has no type fails validation    *)
(* and makes no client call.                                               *)
(***************************************************************************)
CreateCardEnded(w) == w.op = "createCard" /\ w.pc = "done"

C17_TypeMandatory ==
  \A p \in Procs :
    CreateCardEnded(wf[p]) /\ wf[p].input.type = "absent" =>
      /\ wf[p].result = Throw(ZodError)
      /\ wf[p].log = <<>>

(***************************************************************************)
(* C17 as amended: the card's type is always sent on creation.  An input   *)
(* without type passes validation, which fills in "project", and is sent   *)
(* with type "project"; a type that is given is sent as given; a type that *)
(* is neither "project" nor "story" fails validation and makes no client   *)
(* call.                                                                   *)
(***************************************************************************)
C17_TypeDefaulted ==
  \A p \in Procs :
    LET w == wf[p] IN
    CreateCardEnded(w) =>
      IF w.input.type \notin CardTypes \cup {"absent"} \/ w.input.name = ""
      THEN w.result = Throw(ZodError) /\ w.log = <<>>
      ELSE /\ Len(w.log) = 1
           /\ w.log[1].method = "POST"
           /\ w.log[1].body.type =
                (IF w.input.type = "absent" THEN "project" ELSE w.input.type)

\* createCard without a type has returned: its POST carried type "project".
C17_Witness ==
  \E p \in Procs :
    /\ CreateCardEnded(wf[p])
    /\ wf[p].input.type = "absent"
    /\ Returned(wf[p])
    /\ Len(wf[p].log) = 1
    /\ wf[p].log[1].body.type = "project"

(***************************************************************************)
(* C18: a label's colour is held to the palette where it is written and    *)
(* is any string where it is read.  createLabel, updateLabel and           *)
(* planka_manage_labels given a colour outside the palette end without a   *)
(* client call; the parsing of a label answer, of a board's and of a       *)
(* card's included labels accepts a label of any colour string.            *)
(***************************************************************************)
WritesLabel(w) == w.op \in {"createLabel", "updateLabel", "manageLabels"}

C18_ColourClosedOnWriteOpenOnRead ==
  \A p \in Procs :
    LET w == wf[p] IN
    w.pc = "done" =>
      /\ WritesLabel(w) /\ HasField(w.input, "color") =>
           IF w.input.color \in LabelColors
           THEN NonEmptyField(w.input, "name") =>
                  Len(w.log) = 1 /\ w.log[1].body.color = w.input.color
           ELSE /\ w.log = <<>>
                /\ w.result \in {Throw(ZodError), Return([isError |-> TRUE])}
      /\ /\ w.op \in {"getCard", "getBoard"}
         /\ w.log[1].res = "ok"
         /\ w.before.color # "absent"
         => /\ Returned(w)
            /\ w.result.value.labels[1].color = w.before.color
      /\ /\ w.op = "updateLabel"
         /\ ~HasField(w.input, "color")
         /\ Len(w.log) = 1
         /\ w.log[1].res = "ok"
         /\ w.before.color # "absent"
         => /\ Returned(w)
            /\ w.result.value.color = w.before.color

\* getBoard has returned a label whose colour is not of the palette.
C18_Witness ==
  \E p \in Procs :
    /\ wf[p].op = "getBoard"
    /\ Returned(wf[p])
    /\ wf[p].before.color = "summer-sky"
    /\ wf[p].result.value.labels[1].color = "summer-sky"
    /\ "summer-sky" \notin LabelColors

(***************************************************************************)
(* C19: an operation given a payload that fails its declared shape throws  *)
(* before it calls the client: it makes no client call, so that neither an *)
(* API request nor an authentication, which only a client call starts, is  *)
(* attempted.                                                              *)
(***************************************************************************)
\* A member that has to be a non-empty string is missing or empty.
Lacks(i, f) == ~HasField(i, f) \/ i[f] = ""

\* The payload does not have the shape declared for the operation
\* (requests.ts).
FailsDeclaredShape(op, i) ==
  CASE op = "createCard" -> i.name \in {"", "absent"} \/ i.type \notin {"project", "story", "absent"}
    [] op = "updateCard" -> i.name = ""
    [] op = "moveCard" -> ~HasField(i, "cardId") \/ ~HasField(i, "listId")
    [] op = "createTask" -> ~HasField(i, "cardId") \/ Lacks(i, "name")
    [] op = "createTasks" ->
         \/ ~HasField(i, "cardId")
         \/ ~HasField(i, "tasks")
         \/ \E k \in 1..Len(i.tasks) : Lacks(i.tasks[k], "name")
    [] op = "updateTask" -> HasField(i, "name") /\ i.name = ""
    [] op = "createLabel" ->
         \/ ~HasField(i, "boardId")
         \/ Lacks(i, "name")
         \/ ~HasField(i, "color")
         \/ i.color \notin LabelColors
    [] op = "updateLabel" ->
         \/ HasField(i, "name") /\ i.name = ""
         \/ HasField(i, "color") /\ i.color \notin LabelColors
    [] op = "addLabelToCard" -> ~HasField(i, "cardId") \/ ~HasField(i, "labelId")
    [] op = "createComment" -> ~HasField(i, "cardId") \/ Lacks(i, "text")
    [] op = "updateComment" -> Lacks(i, "text")
    [] op = "createList" -> ~HasField(i, "boardId") \/ Lacks(i, "name")
    [] op = "updateList" -> HasField(i, "name") /\ i.name = ""
    [] OTHER -> FALSE

C19_ValidationBeforeNetwork ==
  \A p \in Procs :
    LET w == wf[p] IN
    FailsDeclaredShape(w.op, w.input) =>
      /\ w.pc = "done"
      /\ w.result = Throw(ZodError)
      /\ w.log = <<>>

\* createTasks with a task without a name has thrown, no call made.
C19_Witness ==
  \E p \in Procs :
    /\ wf[p].op = "createTasks"
    /\ HasField(wf[p].input, "tasks")
    /\ \E k \in 1..Len(wf[p].input.tasks) : wf[p].input.tasks[k].name = ""
    /\ wf[p].pc = "done"
    /\ wf[p].result = Throw(ZodError)
    /\ wf[p].log = <<>>

(***************************************************************************)
(* C20: the body createList sends has a position only when the caller      *)
(* gave one.                                                               *)
(***************************************************************************)
C20_NoPositionUnlessProvided ==
  \A p \in Procs :
    LET w == wf[p] IN
    w.op = "createList" /\ Len(w.log) >= 1 =>
      (HasField(w.log[1].body, "position") => HasField(w.input, "position"))

(***************************************************************************)
(* Concurrent invocations                                                  *)
(*                                                                         *)
(* The tool handlers are async functions of one Node.js process: a second  *)
(* tool call can be dispatched while the first waits for the network, and  *)
(* the two share the one PlankaClient (client.ts:239 plankaClient).  The   *)
(* code between two awaits runs without interruption, so the interleavings *)
(* are those of the actions above.  Each client makes one invocation.      *)
(***************************************************************************)
Clients == {1, 2}

\* The settings are complete: the invocations reach the network.
GoodEnvs == {e \in Envs : GetConfig(e).ok /\ e.baseUrl = "http://planka"}

ConcInit ==
  /\ env \in GoodEnvs
  /\ config = NoConfig
  /\ token = Null
  /\ tokenExpiresAt = 0
  /\ now = StartTime
  /\ nticks = 0
  /\ nextTok = 1
  /\ ncalls = 0
  /\ pc = [p \in Clients |-> "idle"]
  /\ call = [p \in Clients |-> NoCall]
  /\ req = [p \in Clients |-> NoRequest]
  /\ isRetry = [p \in Clients |-> FALSE]
  /\ log = [p \in Clients |-> <<>>]
  /\ result = [p \in Clients |-> NoResult]
  /\ resolutions = <<>>
  /\ board = [cards |-> <<>>, taskLists |-> <<>>, tasks |-> <<>>]
  /\ boardPc = "off"
  /\ cardsWithCounts = <<>>
  /\ server = NoServer
  /\ wf = [p \in Procs |-> NoWorkflow]
  /\ nav = NoNav

\* The operations, answers and failures of the concurrent runs: a few of
\* each kind.
ConcCalls ==
  {c \in Calls : c.op = "getCard" \/ (c.op = "createCard" /\ c.input.type = "story")}

ConcApiAnswers ==
  {a \in ApiAnswers :
     \/ a.status = 200 /\ a.raw = Json(Obj("none", "card", "ok"))
     \/ a.status \in {401, 500} /\ a.raw = NotJson}

ConcAuthAnswers(tk) ==
  {a \in AuthAnswers(tk) :
     \/ a.status = 200 /\ a.raw \in {Json(TokenObj(tk)), NotJson}
     \/ a.status = 401 /\ a.raw = NotJson}

ConcFailures == {"refused"}

ConcNext ==
  \/ \E p \in Clients : \E c \in ConcCalls : InvokeCall(p, c)
  \/ \E p \in Clients : \E a \in ConcAuthAnswers(nextTok) : AuthenticateAnswered(p, a)
  \/ \E p \in Clients : \E f \in ConcFailures : \E n \in RejectionNames(f) :
       AuthenticateRejected(p, f, n)
  \/ \E p \in Clients : \E a \in ConcApiAnswers : RequestAnswered(p, a)
  \/ \E p \in Clients : \E f \in ConcFailures : \E n \in RejectionNames(f) :
       RequestRejected(p, f, n)
  \/ Tick

ConcSpec == ConcInit /\ [][ConcNext]_vars

(***************************************************************************)
(* C23: under any interleaving of invocations that share the token slot,   *)
(* every request whose first attempt is answered 401 clears the cached     *)
(* token and is re-issued: the answer is followed by the clearing and the  *)
(* re-authentication, and the request does not end on that answer.         *)
(***************************************************************************)
FirstAnswer(p) == CHOOSE k \in 1..Len(log[p]) : log[p][k].e = "api_resp"

C23_Every401Reissued ==
  \A p \in Clients :
    (Len(ApiResps(p)) >= 1 /\ ApiResps(p)[1].status = 401) =>
      /\ Len(log[p]) >= FirstAnswer(p) + 2
      /\ log[p][FirstAnswer(p) + 1].e = "clear"
      /\ log[p][FirstAnswer(p) + 2].e = "auth_send"

(***************************************************************************)
(* C28: in every reachable state of the client, whatever the interleaving, *)
(* the token is absent exactly when tokenExpiresAt is 0, and a token that  *)
(* is present expires 25 minutes after the successful authentication that  *)
(* produced it: the step that stores a token sets the expiry to the time   *)
(* of that step plus 25 minutes, and the expiry changes in no step that    *)
(* keeps the token.                                                        *)
(***************************************************************************)
Minutes25 == 25 * 60 * 1000

C28_TokenExpiryConsistent ==
  /\ [](token = Null <=> tokenExpiresAt = 0)
  /\ [][/\ (token' # token /\ token' # Null) => tokenExpiresAt' = now + Minutes25
        /\ token' = token => tokenExpiresAt' = tokenExpiresAt]_vars

\* A second authentication has replaced a token: the slot holds the second
\* token, obtained later than the first.
C28_Witness ==
  /\ token = 2
  /\ tokenExpiresAt = now + Minutes25
  /\ now > StartTime

(***************************************************************************)
(* C29: the cached token and its expiry change only in a successful        *)
(* authentication, which sets them, and in the handling of a 401 on a      *)
(* first attempt, which clears them.  A failed authentication (transport   *)
(* failure, non-2xx answer, unreadable token answer), a request whose      *)
(* fetch fails, an answer with another error status, a 401 on the retry    *)
(* and a successful answer leave both unchanged.                           *)
(***************************************************************************)
\* What the step appends to the invocation's log, first entry first.
Appended(p, k) == log'[p][Len(log[p]) + k]
Appends(p) == Len(log'[p]) > Len(log[p])

\* The step is p's authenticate() storing the token it obtained.
StoresToken(p) ==
  /\ pc[p] = "auth_wait"
  /\ Appends(p)
  /\ Appended(p, 1).e = "auth_ok"
  /\ token' = Appended(p, 1).tok
  /\ token' # Null

\* The step is p's request() clearing the token on its first attempt's 401.
ClearsToken(p) ==
  /\ pc[p] = "api_wait"
  /\ ~isRetry[p]
  /\ Appends(p)
  /\ Appended(p, 1).e = "api_resp"
  /\ Appended(p, 1).status = 401
  /\ token' = Null
  /\ tokenExpiresAt' = 0

\* The step is one of those the claim lists as leaving the slot alone.
LeavesTokenAlone(p) ==
  /\ pc[p] \in {"auth_wait", "api_wait"}
  /\ Appends(p)
  /\ \/ Appended(p, 1).e \in {"auth_fail", "net_fail"}
     \/ /\ Appended(p, 1).e = "api_resp"
        /\ Appended(p, 1).status # 401 \/ isRetry[p]

C29_TokenFrame ==
  [][/\ <<token, tokenExpiresAt>>' # <<token, tokenExpiresAt>> =>
          \E p \in Clients : StoresToken(p) \/ ClearsToken(p)
     /\ \A p \in Clients :
          LeavesTokenAlone(p) => UNCHANGED <<token, tokenExpiresAt>>]_vars

\* A retry was answered 401 and the call has failed: the token obtained for
\* the retry is still cached.
C29_Witness ==
  \E p \in Clients :
    /\ pc[p] = "done"
    /\ Len(ApiResps(p)) = 2
    /\ ApiResps(p)[2].status = 401
    /\ token # Null
    /\ token = ApiSends(p)[2].tok

(***************************************************************************)
(* Invocations racing to refresh the token                                 *)
(*                                                                         *)
(* Three invocations against a server that accepts the credentials and     *)
(* the tokens it issued: every authentication is answered with a token,    *)
(* every request with the card.  The clock stands still, so a token once   *)
(* stored stays valid, and a sequential execution of the invocations       *)
(* authenticates once, in the first of them.                               *)
(***************************************************************************)
Racers == {1, 2, 3}

RaceInit ==
  /\ env \in GoodEnvs
  /\ config = NoConfig
  /\ token = Null
  /\ tokenExpiresAt = 0
  /\ now = StartTime
  /\ nticks = 0
  /\ nextTok = 1
  /\ ncalls = 0
  /\ pc = [p \in Racers |-> "idle"]
  /\ call = [p \in Racers |-> NoCall]
  /\ req = [p \in Racers |-> NoRequest]
  /\ isRetry = [p \in Racers |-> FALSE]
  /\ log = [p \in Racers |-> <<>>]
  /\ result = [p \in Racers |-> NoResult]
  /\ resolutions = <<>>
  /\ board = [cards |-> <<>>, taskLists |-> <<>>, tasks |-> <<>>]
  /\ boardPc = "off"
  /\ cardsWithCounts = <<>>
  /\ server = NoServer
  /\ wf = [p \in Procs |-> NoWorkflow]
  /\ nav = NoNav

RaceNext ==
  \/ \E p \in Racers : \E c \in ConcCalls : InvokeCall(p, c)
  \/ \E p \in Racers : \E a \in ConcAuthAnswers(nextTok) :
       a.raw = Json(TokenObj(nextTok)) /\ AuthenticateAnswered(p, a)
  \/ \E p \in Racers : \E a \in ConcApiAnswers :
       a.status = 200 /\ RequestAnswered(p, a)

RaceSpec == RaceInit /\ [][RaceNext]_vars

\* The authentication calls made so far, all invocations together.
RECURSIVE SumOver(_, _)
SumOver(S, f) ==
  IF S = {} THEN 0
  ELSE LET x == CHOOSE y \in S : TRUE IN f[x] + SumOver(S \ {x}, f)

AuthCalls == SumOver(Racers, [p \in Racers |-> Len(AuthSends(p))])

\* What a sequential execution of the same invocations makes: the first
\* invocation authenticates, the others find its token.
SequentialAuthCalls == IF \E p \in Racers : pc[p] # "idle" THEN 1 ELSE 0

(***************************************************************************)
(* C24: invocations racing to refresh an absent token make at most one     *)
(* authentication call more than their sequential execution makes.         *)
(***************************************************************************)
C24_AtMostOneExtraAuth == AuthCalls <= SequentialAuthCalls + 1

(***************************************************************************)
(* C24 as amended: every racing invocation authenticates at most once, and *)
(* only when it found no token, so that N invocations make at most N       *)
(* authentication calls, N - 1 more than their sequential execution; an    *)
(* invocation that starts after a token was stored makes none.             *)
(***************************************************************************)
C24_OneAuthPerRacer ==
  /\ AuthCalls <= Cardinality({p \in Racers : pc[p] # "idle"})
  /\ \A p \in Racers :
       /\ Len(AuthSends(p)) <= 1
       /\ Len(AuthSends(p)) = 1 => AuthSends(p)[1].tok = Null

\* Three invocations found no token: three authentication calls, all
\* answered, and the three requests have returned.
C24_Witness ==
  /\ AuthCalls = 3
  /\ \A p \in Racers : pc[p] = "done" /\ result[p].ok

(***************************************************************************)
(* C26: createTasks creates the tasks one at a time in request order, and  *)
(* the tasks given no position get positions that start at 65536 and grow  *)
(* by 65536: the k-th task without a position is sent with 65536 * k, so   *)
(* that these positions are distinct, increasing and evenly spaced.        *)
(***************************************************************************)
\* The task POSTs of a createTasks, in the order they were sent.
TaskPosts(w) == SelectSeq(w.log, IsTaskPost)

\* The tasks of the request up to the k-th that have no position.
Positionless(tasks, k) == {j \in 1..k : ~HasField(tasks[j], "position")}

C26_EvenlySpacedPositions ==
  \A p \in Procs :
    LET w == wf[p] IN
    (w.op = "createTasks" /\ HasField(w.v, "tasks")) =>
      \A k \in 1..Len(TaskPosts(w)) :
        ~HasField(w.v.tasks[k], "position") =>
          TaskPosts(w)[k].body.position =
            65536 * Cardinality(Positionless(w.v.tasks, k))

(***************************************************************************)
(* C26 as amended: the tasks are posted one at a time in request order,    *)
(* each after the one before was answered; the counter starts at 65536 and *)
(* grows by 65536 per task of the request, with or without a position of   *)
(* its own, so that the j-th task of the request, when it has no position, *)
(* is sent with 65536 * j, and a task with a position is sent with it.     *)
(* The positions of the tasks without one are distinct and increase in     *)
(* request order; they are 65536 apart where the tasks are neighbours.     *)
(***************************************************************************)
C26_PositionByIndex ==
  \A p \in Procs :
    LET w == wf[p]
        posts == TaskPosts(w)
    IN
    (w.op = "createTasks" /\ HasField(w.v, "tasks")) =>
      /\ Len(posts) <= Len(w.v.tasks)
      /\ \A k \in 1..Len(posts) :
           /\ posts[k].body.name = w.v.tasks[k].name
           /\ posts[k].body.position =
                (IF HasField(w.v.tasks[k], "position") THEN w.v.tasks[k].position
                 ELSE 65536 * k)
           /\ k < Len(posts) => posts[k].res = "ok"
      /\ \A j, k \in 1..Len(posts) :
           (j < k /\ ~HasField(w.v.tasks[j], "position")
                  /\ ~HasField(w.v.tasks[k], "position")) =>
             posts[j].body.position < posts[k].body.position
      /\ Returned(w) => Len(posts) = Len(w.v.tasks)

\* createTasks has returned after a task with a position and then one
\* without: the second was sent with 131072.
C26_Witness ==
  \E p \in Procs :
    LET w == wf[p] IN
    /\ w.op = "createTasks"
    /\ Returned(w)
    /\ Len(w.v.tasks) = 2
    /\ HasField(w.v.tasks[1], "position")
    /\ ~HasField(w.v.tasks[2], "position")
    /\ TaskPosts(w)[2].body.position = 131072

(***************************************************************************)
(* Two task creations at once on a card without task lists                 *)
(***************************************************************************)
TaskRacers == {1, 2}

\* createTask and createTasks with a valid input, on card "c1".
TaskCreations ==
  {c \in WfCalls : c.op \in {"createTask", "createTasks"} /\ WfValidate(c).ok}

TasksRaceInit ==
  /\ env = [baseUrl |-> "http://planka", email |-> "agent@example.com", password |-> "secret"]
  /\ config = NoConfig
  /\ token = Null
  /\ tokenExpiresAt = 0
  /\ now = StartTime
  /\ nticks = 0
  /\ nextTok = 1
  /\ ncalls = 0
  /\ pc = [p \in Procs |-> "idle"]
  /\ call = [p \in Procs |-> NoCall]
  /\ req = [p \in Procs |-> NoRequest]
  /\ isRetry = [p \in Procs |-> FALSE]
  /\ log = [p \in Procs |-> <<>>]
  /\ result = [p \in Procs |-> NoResult]
  /\ resolutions = <<>>
  /\ board = [cards |-> <<>>, taskLists |-> <<>>, tasks |-> <<>>]
  /\ boardPc = "off"
  /\ cardsWithCounts = <<>>
  /\ server = NoServer
  /\ wf = [p \in TaskRacers |-> NoWorkflow]
  /\ nav = NoNav

TasksRaceNext ==
  \/ \E p \in TaskRacers : \E c \in TaskCreations : InvokeOpCall(p, c)
  \/ \E p \in TaskRacers : CardAnswered(p)
  \/ \E p \in TaskRacers : TaskListAnswered(p)
  \/ \E p \in TaskRacers : TaskAnswered(p)

TasksRaceSpec == TasksRaceInit /\ [][TasksRaceNext]_vars

(***************************************************************************)
(* C30: two task creations running at once on a card that has no task list *)
(* create at most one "Tasks" list on it, and all their tasks go to that   *)
(* one list.                                                               *)
(***************************************************************************)
C30_OneDefaultTaskList ==
  /\ Len(server.taskLists) <= 1
  /\ \A p, q \in TaskRacers :
       \A j \in CallsOf(wf[p], IsTaskPost), k \in CallsOf(wf[q], IsTaskPost) :
         wf[p].log[j].path[3] = wf[q].log[k].path[3]

(***************************************************************************)
(* Cards on the server: createCard, getCard, planka_move_card              *)
(*                                                                         *)
(* The server keeps the cards: it stores the type and the position a       *)
(* request gives, and returns what it stored.  Card "c1" is in list "l1";  *)
(* list "l2", the target of the moves, holds none, one or two cards at the *)
(* positions PLANKA and this client give to the first and second card of a *)
(* list.  createCard makes card "c2".  The invocations run one at a time.  *)
(***************************************************************************)
CardCallers == {1, 2}

MkCard(id, listId, position, type) ==
  [id |-> id, listId |-> listId, position |-> position, type |-> type]

CardsOfTarget ==
  {<<>>, <<MkCard("c3", "l2", 65536, "project")>>,
   <<MkCard("c3", "l2", 65536, "project"), MkCard("c4", "l2", 131072, "story")>>}

CardStores ==
  {[cards |-> <<MkCard("c1", "l1", 65536, "project")>> \o t] : t \in CardsOfTarget}

\* The card with an id, in a sequence that has it.
CardById(cards, id) == cards[CHOOSE k \in 1..Len(cards) : cards[k].id = id]
HasCard(cards, id) == \E k \in 1..Len(cards) : cards[k].id = id

MoveCardToolInputs ==
  {[cardId |-> "c1", listId |-> "l2"], [cardId |-> "c1", listId |-> "l2", position |-> 5],
   [cardId |-> "c1", listId |-> "l2", position |-> 196608]}

CardCalls ==
  OpCalls("createCard", CreateCardInputs)
    \cup OpCalls("getCard", {[cardId |-> "c1"], [cardId |-> "c2"]})
    \cup OpCalls("planka_move_card", MoveCardToolInputs)

CardsInit ==
  /\ env = [baseUrl |-> "http://planka", email |-> "agent@example.com", password |-> "secret"]
  /\ config = NoConfig
  /\ token = Null
  /\ tokenExpiresAt = 0
  /\ now = StartTime
  /\ nticks = 0
  /\ nextTok = 1
  /\ ncalls = 0
  /\ pc = [p \in Procs |-> "idle"]
  /\ call = [p \in Procs |-> NoCall]
  /\ req = [p \in Procs |-> NoRequest]
  /\ isRetry = [p \in Procs |-> FALSE]
  /\ log = [p \in Procs |-> <<>>]
  /\ result = [p \in Procs |-> NoResult]
  /\ resolutions = <<>>
  /\ board = [cards |-> <<>>, taskLists |-> <<>>, tasks |-> <<>>]
  /\ boardPc = "off"
  /\ cardsWithCounts = <<>>
  /\ server \in CardStores
  /\ wf = [p \in CardCallers |-> NoWorkflow]
  /\ nav = NoNav

\* An operation on cards is invoked while no other is running.
InvokeCardOp(p) ==
  /\ \A q \in CardCallers : wf[q].pc \in {"idle", "done"}
  /\ \E c \in CardCalls : InvokeOpCall(p, c)

\* The server's part of a successful call: POST /api/lists/{id}/cards makes
\* card "c2" with the type of the body, PATCH /api/cards/{id} stores the
\* list and the position of the body, GET changes nothing.
StoreAfter(srv, c) ==
  CASE c.method = "POST" ->
         [srv EXCEPT !.cards = Append(@, MkCard("c2", c.path[3], 65536, c.body.type))]
    [] c.method = "PATCH" ->
         [srv EXCEPT !.cards =
            [k \in 1..Len(@) |->
               IF @[k].id = c.path[3]
               THEN [@[k] EXCEPT !.listId = c.body.listId, !.position = c.body.position]
               ELSE @[k]]]
    [] OTHER -> srv

\* The card a successful call is about, as the server has it afterwards.
AnsweredCard(srv, c) ==
  CardById(StoreAfter(srv, c).cards, IF c.method = "POST" THEN "c2" ELSE c.path[3])

\* The server has what the call is about: the card of a GET or a PATCH; a
\* POST makes the card, once.
Answerable(srv, c) ==
  IF c.method = "POST" THEN ~HasCard(srv.cards, "c2") ELSE HasCard(srv.cards, c.path[3])

\* responses.ts:302-316  CardSchema: type is CardTypeSchema
CardSchemaParse(card) ==
  IF card.type \in CardTypes THEN Valid(card) ELSE Invalid

\* part_005:200-201 createCard, :209-224 getCard, :265-266 moveCard: the
\* client call ended; CardResponse.parse(response).item is returned, by
\* getCard inside the card's details
CardCallAnswered(p) ==
  LET w == wf[p] IN
  /\ w.pc \in {"call_wait", "card_wait"}
  /\ \/ /\ \E err \in ClientErrors(Pending(w)) :
             wf' = [wf EXCEPT ![p] = Finish(Answered(w, "fail"), Throw(err))]
        /\ UNCHANGED server
     \/ /\ Answerable(server, Pending(w))
        /\ server' = StoreAfter(server, Pending(w))
        /\ LET parsed == CardSchemaParse(AnsweredCard(server, Pending(w)))
           IN  wf' = [wf EXCEPT ![p] =
                        IF ~parsed.ok THEN Finish(Answered(w, "ok"), Throw(ZodError))
                        ELSE IF w.op = "getCard"
                        THEN Finish(Answered(w, "ok"), Return([card |-> parsed.value]))
                        ELSE Finish(Answered(w, "ok"), Return(parsed.value))]
  /\ OnlyWf

CardsNext ==
  \/ \E p \in CardCallers : InvokeCardOp(p)
  \/ \E p \in CardCallers : CardCallAnswered(p)
  \/ \E p \in CardCallers : ResumeOp(p)

CardsSpec == CardsInit /\ [][CardsNext]_vars

(***************************************************************************)
(* C21: a card created with type "story" given is sent with type "story",  *)
(* and a getCard of that card afterwards returns a card of type "story".   *)
(***************************************************************************)
C21_StoryRoundTrip ==
  \A p, q \in CardCallers :
    LET w == wf[p]
        g == wf[q]
    IN
    (w.op = "createCard" /\ w.input.type = "story") =>
      /\ Len(w.log) >= 1 => w.log[1].body.type = "story"
      /\ Returned(w) =>
           /\ w.result.value.type = "story"
           /\ (g.op = "getCard" /\ Returned(g) /\ g.input.cardId = w.result.value.id) =>
                g.result.value.card.type = "story"

\* A card was created with type "story" and then fetched by its id.
C21_Witness ==
  \E p, q \in CardCallers :
    /\ wf[p].op = "createCard"
    /\ wf[p].input.type = "story"
    /\ Returned(wf[p])
    /\ wf[q].op = "getCard"
    /\ Returned(wf[q])
    /\ wf[q].input.cardId = wf[p].result.value.id
    /\ wf[q].result.value.card.type = "story"

(***************************************************************************)
(* C22: planka_move_card called without a position moves the card to the   *)
(* end of the target list: its position is greater than the position of    *)
(* every card that was in that list.                                       *)
(***************************************************************************)
C22_MovedToEnd ==
  \A p \in CardCallers :
    LET w == wf[p] IN
    (w.op = "moveCard" /\ ~HasField(w.input, "position") /\ Returned(w)) =>
      \A k \in 1..Len(w.before.cards) :
        (w.before.cards[k].listId = w.input.listId
           /\ w.before.cards[k].id # w.input.cardId) =>
          CardById(server.cards, w.input.cardId).position > w.before.cards[k].position

(***************************************************************************)
(* C25: structure assembly returns the project's boards in ascending       *)
(* order of position and each board's lists in ascending order of          *)
(* position; the lists without a position keep the order the server gave   *)
(* them in, and the lists with a position stand in ascending order         *)
(* whatever lists without one are among them.                              *)
(***************************************************************************)
Positioned(l) == l.position # NullPosition
Unpositioned(l) == l.position = NullPosition

\* A sequence of boards or lists is in ascending order of position.
Ascending(s, Key(_)) == \A j, k \in 1..Len(s) : j < k => Key(s[j]) <= Key(s[k])
PositionOf(l) == l.position
BoardPositionOf(b) == b.board.position

C25_StructureSorted ==
  nav.pc \in {"assembled", "formatted"} =>
    /\ Ascending(nav.structure, BoardPositionOf)
    /\ {nav.structure[k].board : k \in 1..Len(nav.structure)} =
         {nav.answer.boards[k] :
            k \in {i \in 1..Len(nav.answer.boards) : nav.answer.boards[i].projectId = "p1"}}
    /\ \A k \in 1..Len(nav.structure) :
         LET out == nav.structure[k].lists
             all == nav.answer.lists[nav.structure[k].board.id]
         IN  /\ Len(out) = Len(all)
             /\ {out[j] : j \in 1..Len(out)} = {all[j] : j \in 1..Len(all)}
             /\ Ascending(SelectSeq(out, Positioned), PositionOf)
             /\ SelectSeq(out, Unpositioned) = SelectSeq(all, Unpositioned)

\* The server gave board b1 a list at position 2 and then one without a
\* position, and board b2 before b1 though b1's position is lower: the
\* structure has b1 first, and in b1 the list without a position first.
C25_Witness ==
  /\ nav.pc = "assembled"
  /\ Len(nav.answer.lists["b1"]) = 2
  /\ nav.answer.lists["b1"][1].position = 2
  /\ nav.answer.lists["b1"][2].position = NullPosition
  /\ nav.answer.boards[1].id = "b2"
  /\ Len(nav.structure) = 2
  /\ nav.structure[1].board.id = "b1"
  /\ nav.structure[1].lists[1].id = "l2"
  /\ nav.structure[1].lists[2].id = "l1"

(***************************************************************************)
(* Tool invocations: the handlers of planka_create_card and                *)
(* planka_get_card (src/src/client.ts) under the dispatch of tool calls    *)
(* (src/unnamed/part_006)                                                  *)
(*                                                                         *)
(* A handler awaits its operations one after the other; each operation     *)
(* returns or throws to the handler.  What an operation can throw is an    *)
(* error of the client (a PlankaError) or the ZodError of a parse.         *)
(***************************************************************************)
\* What a tool is called with.  tasks and labelIds are optional.
CreateCardToolInputs ==
  {[name |-> "Card", tasks |-> t, labelIds |-> l] :
     t \in {<<>>, <<"A">>}, l \in {<<>>, <<"L1">>, <<"L1", "L2">>}}

ToolCalls ==
  OpCalls("planka_create_card", CreateCardToolInputs)
    \cup OpCalls("planka_get_card", {[cardId |-> "c1"]})

\* A tool invocation: the operations it has awaited (ops), the one it is
\* waiting for (stage, and i among the labels), the handler's counters.
NoToolRun ==
  [op |-> "none", input |-> NoInput, pc |-> "idle", stage |-> "", i |-> 0,
   ops |-> <<>>, labelsAttached |-> 0, labelErrors |-> <<>>, result |-> NoResult]

\* errors.ts:5-57  error instanceof PlankaError
IsPlankaError(e) == e.name \in TypedErrorNames

\* What an operation can throw to the handler.
OperationErrors(op) ==
  ClientErrors(ClientCall("POST", <<"api", op>>, NoBody)) \cup {ZodError}

\* A handler that reports a failed label as an error of the tool call
\* (no inner try)
LabelFailure_Propagates(run, labelId, e) == [caught |-> FALSE, run |-> run]

\* client.ts:448-458  the catch around addLabelToCard: labelErrors.push(labelId)
LabelFailure(run, labelId, e) ==
  [caught |-> TRUE, run |-> [run EXCEPT !.labelErrors = Append(@, labelId)]]

\* client.ts:461-481  the success result of planka_create_card
CreateCardSuccess(run) ==
  [isError |-> FALSE, success |-> TRUE, text |-> <<"success">>,
   tasksCreated |-> Len(run.input.tasks),
   labelsAttached |-> run.labelsAttached, labelErrors |-> run.labelErrors]

\* An error result: the text and the flag
ErrorResult(prefix, e) ==
  [isError |-> TRUE, success |-> FALSE, text |-> <<prefix, e.message>>,
   tasksCreated |-> 0, labelsAttached |-> 0, labelErrors |-> <<>>]

\* client.ts:483-491  the handler's catch: a PlankaError becomes an error
\* result, anything else is thrown on
HandlerCatch(e) ==
  IF IsPlankaError(e) THEN Return(ErrorResult("Error:", e)) ELSE Throw(e)

\* part_006:58-93  the dispatch of a tool call: the handler's result, or an
\* error result for what the handler threw
Dispatch(outcome) ==
  IF outcome.ok THEN outcome.value
  ELSE IF outcome.error.name = "PlankaConfigError"
  THEN ErrorResult("Configuration error:", outcome.error)
  ELSE IF IsPlankaError(outcome.error)
  THEN ErrorResult("PLANKA error:", outcome.error)
  ELSE ErrorResult("Unexpected error:", outcome.error)

\* The tool call is answered.
Answer(run, outcome) ==
  [run EXCEPT !.pc = "done", !.stage = "", !.result = Dispatch(outcome)]

\* The handler awaits its next operation.
Await(run, stage) == [run EXCEPT !.pc = "op_wait", !.stage = stage]

\* client.ts:445-459  the loop over params.labelIds, then the result
NextLabel(run) ==
  IF run.i <= Len(run.input.labelIds) THEN Await(run, "addLabelToCard")
  ELSE Answer(run, Return(CreateCardSuccess(run)))

\* client.ts:430-481  planka_create_card after an operation returned
AfterOperation(run) ==
  CASE run.stage = "createCard" ->
         IF Len(run.input.tasks) > 0 THEN Await(run, "createTasks")
         ELSE NextLabel([run EXCEPT !.i = 1])
    [] run.stage = "createTasks" -> NextLabel([run EXCEPT !.i = 1])
    [] run.stage = "addLabelToCard" ->
         NextLabel([run EXCEPT !.i = @ + 1, !.labelsAttached = @ + 1])
    [] OTHER -> Answer(run, Return([isError |-> FALSE, success |-> TRUE,
                                    text |-> <<"card">>, tasksCreated |-> 0,
                                    labelsAttached |-> 0, labelErrors |-> <<>>]))

\* client.ts:454-457, 483-491  an operation threw e
AfterFailure(run, e) ==
  IF run.stage = "addLabelToCard" /\ LabelFailure(run, run.input.labelIds[run.i], e).caught
  THEN NextLabel([LabelFailure(run, run.input.labelIds[run.i], e).run EXCEPT !.i = @ + 1])
  ELSE Answer(run, HandlerCatch(e))

ToolsInit ==
  /\ env = [baseUrl |-> "http://planka", email |-> "agent@example.com", password |-> "secret"]
  /\ config = NoConfig
  /\ token = Null
  /\ tokenExpiresAt = 0
  /\ now = StartTime
  /\ nticks = 0
  /\ nextTok = 1
  /\ ncalls = 0
  /\ pc = [p \in Procs |-> "idle"]
  /\ call = [p \in Procs |-> NoCall]
  /\ req = [p \in Procs |-> NoRequest]
  /\ isRetry = [p \in Procs |-> FALSE]
  /\ log = [p \in Procs |-> <<>>]
  /\ result = [p \in Procs |-> NoResult]
  /\ resolutions = <<>>
  /\ board = [cards |-> <<>>, taskLists |-> <<>>, tasks |-> <<>>]
  /\ boardPc = "off"
  /\ cardsWithCounts = <<>>
  /\ server = NoServer
  /\ wf = [p \in Procs |-> NoToolRun]
  /\ nav = NoNav

\* part_006:42-60  a tool is called: its handler awaits its first operation
CallTool(p) ==
  /\ wf[p].pc = "idle"
  /\ ncalls < MaxCalls
  /\ ncalls' = ncalls + 1
  /\ \E c \in ToolCalls :
       wf' = [wf EXCEPT ![p] =
                Await([NoToolRun EXCEPT !.op = c.op, !.input = c.input],
                      IF c.op = "planka_create_card" THEN "createCard" ELSE "getCard")]
  /\ UNCHANGED <<server, nav, boardVars>>
  /\ UNCHANGED <<env, config, token, tokenExpiresAt, now, nticks, nextTok,
                 pc, call, req, isRetry, log, result, resolutions>>

\* The awaited operation returned
OperationReturned(p) ==
  LET run == wf[p] IN
  /\ run.pc = "op_wait"
  /\ wf' = [wf EXCEPT ![p] =
              AfterOperation([run EXCEPT !.ops = Append(@, [op |-> run.stage, ok |-> TRUE,
                                                            error |-> NoError])])]
  /\ UNCHANGED server
  /\ OnlyWf

\* The awaited operation threw
OperationThrew(p) ==
  LET run == wf[p] IN
  /\ run.pc = "op_wait"
  /\ \E e \in OperationErrors(run.stage) :
       wf' = [wf EXCEPT ![p] =
                AfterFailure([run EXCEPT !.ops = Append(@, [op |-> run.stage, ok |-> FALSE,
                                                            error |-> e])], e)]
  /\ UNCHANGED server
  /\ OnlyWf

\* The caller of the tool has its answer.
ToolDone(p) ==
  /\ wf[p].pc = "done"
  /\ wf' = [wf EXCEPT ![p] = NoToolRun]
  /\ UNCHANGED server
  /\ OnlyWf

ToolsNext ==
  \/ \E p \in Procs : CallTool(p)
  \/ \E p \in Procs : OperationReturned(p)
  \/ \E p \in Procs : OperationThrew(p)
  \/ \E p \in Procs : ToolDone(p)

ToolsSpec == ToolsInit /\ [][ToolsNext]_vars

\* The typed errors operations threw to the handler in this invocation.
TypedFailures(run) ==
  {k \in 1..Len(run.ops) : ~run.ops[k].ok /\ IsPlankaError(run.ops[k].error)}

(***************************************************************************)
(* C27: a tool invocation in which an operation threw a typed error to the *)
(* handler is answered with the error flag set and the error's message in  *)
(* the text, never with a success result.                                  *)
(***************************************************************************)
C27_TypedErrorsReported ==
  \A p \in Procs :
    LET run == wf[p] IN
    (run.pc = "done" /\ TypedFailures(run) # {}) =>
      /\ run.result.isError
      /\ \E k \in TypedFailures(run) : run.result.text[2] = run.ops[k].error.message

(***************************************************************************)
(* C27 as amended: a typed error thrown by createCard, createTasks or the  *)
(* operation of another tool is reported with the error flag and its       *)
(* message, and ends the invocation at once.  An error thrown by           *)
(* addLabelToCard inside planka_create_card, typed or not, is not          *)
(* reported as an error: the label's id goes to labelErrors, the handler   *)
(* goes on with the next label, and the invocation returns a success       *)
(* result that lists the labels that failed.                               *)
(***************************************************************************)
FailedLabels(run) ==
  SelectSeq(run.ops, LAMBDA o : o.op = "addLabelToCard" /\ ~o.ok)

C27_LabelErrorsSwallowed ==
  \A p \in Procs :
    LET run == wf[p]
        hard == {k \in 1..Len(run.ops) : ~run.ops[k].ok /\ run.ops[k].op # "addLabelToCard"}
    IN
    run.pc = "done" =>
      /\ hard # {} =>
           /\ hard = {Len(run.ops)}
           /\ run.result.isError
           /\ run.result.text[2] = run.ops[Len(run.ops)].error.message
      /\ hard = {} =>
           /\ ~run.result.isError
           /\ run.result.success
           /\ run.op = "planka_create_card" =>
                /\ Len(run.result.labelErrors) = Len(FailedLabels(run))
                /\ run.result.labelsAttached + Len(run.result.labelErrors)
                     = Len(run.input.labelIds)
                /\ Len(run.ops) >= 1 + Len(run.input.labelIds)

\* planka_create_card with two labels: the first addLabelToCard threw a
\* typed error, the second succeeded; the answer is a success that lists
\* the first label.
C27_Witness ==
  \E p \in Procs :
    LET run == wf[p] IN
    /\ run.pc = "done"
    /\ run.op = "planka_create_card"
    /\ Len(run.input.labelIds) = 2
    /\ TypedFailures(run) # {}
    /\ ~run.result.isError
    /\ run.result.labelErrors = <<"L1">>
    /\ run.result.labelsAttached = 1

====
